---------------------------- MODULE Spec2Model ----------------------------
(***************************************************************************)
(* crane-relay, the v2 event pipeline (src/src/index.ts): POST /v2/events  *)
(* with its D1 tables (src/migrations/0002_approval_queue.sql) and the     *)
(* forge (GitHub REST) it talks to.                                        *)
(*                                                                         *)
(* One request is one slot r of pc/loc/calls/resp.  Every await of the     *)
(* handler (a D1 statement or a forge call) is one action, so that         *)
(* concurrent handlers interleave exactly where the code can be suspended. *)
(* A forge call either succeeds or fails (the wrappers throw on a non-2xx  *)
(* answer); a throw that nobody catches ends the request with the 500 of   *)
(* the fetch handler.                                                      *)
(***************************************************************************)
EXTENDS Integers, Sequences, FiniteSets, TLC

VARIABLES
    events,      \* table events: a set of rows
    statusMap,   \* table relay_status_comment: a set of rows
    comments,    \* forge: the issue's comments in list order (a sequence of items)
    labels,      \* forge: the issue's label set
    prHead,      \* forge: head SHA of the pull request, as the forge spells it
    nextId,      \* forge: id the next created comment gets
    now,         \* the clock nowIso() reads
    cfg,         \* the run's environment: LABEL_RULES_JSON, what callers send, scheduling
    pc,          \* per request: the await the handler is suspended at
    loc,         \* per request: the handler's local variables
    calls,       \* per request: forge calls issued so far, by kind
    resp,        \* per request: the response
    assets,      \* table evidence_assets: a set of rows
    bucket,      \* EVIDENCE_BUCKET: the objects written, removed ones marked
    ev           \* per request: its route, whether its X-Relay-Key is the shared
                 \* secret, and the locals of the evidence handlers

vars == <<events, statusMap, comments, labels, prHead, nextId, now, cfg, pc, loc, calls, resp,
          assets, bucket, ev>>

-----------------------------------------------------------------------------
(* Bounds of the model *)

\* requests of a run
MaxRequests == 2
\* requests of a run that replays one event_id
MaxReplays == 3

-----------------------------------------------------------------------------
(* Program constants *)

\* listIssueComments asks for per_page=100; the scan stops after a page shorter than that
PER_PAGE == 100
\* while (page <= 3 && !found)
MAX_PAGES == 3
\* event_id.length < 8
MIN_EVENT_ID_LEN == 8
\* agent.length < 2
MIN_AGENT_LEN == 2
\* String(e[k]).trim().length < 3
MIN_REPRO_LEN == 3
\* isHexSha: /^[0-9a-f]{7,40}$/i
MIN_SHA_LEN == 7
MAX_SHA_LEN == 40
\* getRecentEvents(env, event.repo, event.issue_number, 5)
RECENT_LIMIT == 5

-----------------------------------------------------------------------------
(* Values *)

\* a JSON field that is not there (undefined)
Absent == "<absent>"

RELAY_STATUS_MARKER == "<!-- RELAY_STATUS v2 -->"

Verdicts == {"PASS", "FAIL", "BLOCKED", "PASS_UNVERIFIED", "FAIL_UNCONFIRMED"}
Roles == {"QA", "DEV", "PM", "MENTOR"}
Environments == {"preview", "production", "dev"}
Severities == {"P0", "P1", "P2", "P3"}

\* provenanceVerified: boolean | null
VTrue == "true"
VFalse == "false"
VNull == "null"

\* String.prototype.toLowerCase on the spellings the model uses
ToLowerCase(s) ==
    CASE s = "ABC1234DEF" -> "abc1234def"
      [] s = "Abc1234Def" -> "abc1234def"
      [] s = "FFFFFFFFFF" -> "ffffffffff"
      [] OTHER -> s

\* String.prototype.trim on the spellings the model uses
Trim(s) ==
    CASE s = " evt-00000001 " -> "evt-00000001"
      [] s = " acme/web " -> "acme/web"
      [] s = " QA " -> "QA"
      [] s = " qa-bot " -> "qa-bot"
      [] s = " qa.result_submitted " -> "qa.result_submitted"
      [] s = " abc1234def" -> "abc1234def"
      [] s = "  " -> ""
      [] OTHER -> s

\* String(x || "") of a string field that may be missing
StrOrEmpty(x) == IF x = Absent THEN "" ELSE x

\* the characters of the spellings the model uses are hex digits, but for these
NonHex == {"not-a-sha", "abc1234xyz"}

isHexSha(s) == /\ s \notin NonHex
               /\ Len(s) >= MIN_SHA_LEN
               /\ Len(s) <= MAX_SHA_LEN

\* /^[^/]+\/[^/]+$/ on the spellings the model uses
isRepoSlug(s) == s \in {"acme/web", "acme/api"}

\* a JSON value of a field callers send as a number or as a string, or leave out
JNum(n) == [type |-> "number", number |-> n, text |-> ""]
JStr(s) == [type |-> "string", number |-> 0, text |-> s]
JNone == [type |-> "undefined", number |-> 0, text |-> ""]

\* Number(text) on the texts the model uses: Number("") is 0, and <<>> is NaN
NumberOf(text) ==
    CASE text = "42" -> <<42>>
      [] text = "7" -> <<7>>
      [] text = "0" -> <<0>>
      [] text = "" -> <<0>>
      [] OTHER -> <<>>

\* typeof x === "string" ? Number(x) : (typeof x === "number" ? x : NaN), and
\* null (<<>>) when that is not finite
safeInt(x) ==
    IF x.type = "string" THEN NumberOf(x.text)
    ELSE IF x.type = "number" THEN <<x.number>>
    ELSE <<>>

-----------------------------------------------------------------------------
(* validateEvent *)

Invalid(message) == [ok |-> FALSE, message |-> message, event |-> <<>>]

\* (variant) the SHA kept as the caller spelled it
ValidatedBuildAsSpelled(e) ==
    IF e.build = <<>> THEN <<>>
    ELSE <<[commit_sha |-> Trim(StrOrEmpty(e.build[1].commit_sha)),
            pr |-> IF safeInt(e.build[1].pr) = <<>> THEN 0 ELSE safeInt(e.build[1].pr)[1]]>>

\* the build of the validated event: <<>> when the payload has none, else one
\* record whose pr is 0 when the payload's is missing or falsy (pr ? { pr } : {})
ValidatedBuild(e) ==
    LET pr == IF e.build[1].pr.type = "undefined" THEN <<>> ELSE safeInt(e.build[1].pr)
    IN  IF e.build = <<>> THEN <<>>
        ELSE <<[commit_sha |-> ToLowerCase(Trim(StrOrEmpty(e.build[1].commit_sha))),
                pr |-> IF pr = <<>> THEN 0 ELSE pr[1]]>>

\* the RelayEvent validateEvent builds from a payload that passed every check
ValidatedEvent(e) ==
    [event_id |-> Trim(StrOrEmpty(e.event_id)),
     repo |-> Trim(StrOrEmpty(e.repo)),
     issue_number |-> safeInt(e.issue_number)[1],
     role |-> Trim(StrOrEmpty(e.role)),
     agent |-> Trim(StrOrEmpty(e.agent)),
     event_type |-> Trim(StrOrEmpty(e.event_type)),
     summary |-> e.summary,
     environment |-> IF e.environment = "" THEN Absent ELSE e.environment,
     build |-> ValidatedBuild(e),
     overall_verdict |-> e.overall_verdict,
     severity |-> e.severity,
     repro_steps |-> e.repro_steps,
     expected |-> e.expected,
     actual |-> e.actual]

\* (variant) repro_steps, expected and actual not looked at
ShortReproNone(e) == Absent

\* the first key of repro_steps, expected, actual that is missing or too short
ShortRepro(e) ==
    LET bad(k) == e[k] = Absent \/ e[k] = "" \/ Len(Trim(e[k])) < MIN_REPRO_LEN
    IN  IF bad("repro_steps") THEN "repro_steps"
        ELSE IF bad("expected") THEN "expected"
        ELSE IF bad("actual") THEN "actual"
        ELSE Absent

validateEvent(e) ==
    LET event_id == Trim(StrOrEmpty(e.event_id))
        repo == Trim(StrOrEmpty(e.repo))
        role == Trim(StrOrEmpty(e.role))
        agent == Trim(StrOrEmpty(e.agent))
        event_type == Trim(StrOrEmpty(e.event_type))
        issue_number == safeInt(e.issue_number)
        build == ValidatedBuild(e)
        verdict == e.overall_verdict
    IN  IF event_id = "" \/ Len(event_id) < MIN_EVENT_ID_LEN
          THEN Invalid("event_id is required (min length 8)")
        ELSE IF repo = "" \/ ~isRepoSlug(repo)
          THEN Invalid("repo must be 'org/repo'")
        ELSE IF issue_number = <<>> \/ issue_number[1] = 0 \/ issue_number[1] < 1
          THEN Invalid("issue_number must be a positive integer")
        ELSE IF role \notin Roles
          THEN Invalid("role must be QA|DEV|PM|MENTOR")
        ELSE IF agent = "" \/ Len(agent) < MIN_AGENT_LEN
          THEN Invalid("agent is required")
        ELSE IF event_type = ""
          THEN Invalid("event_type is required")
        ELSE IF build # <<>> /\ (build[1].commit_sha = "" \/ ~isHexSha(build[1].commit_sha))
          THEN Invalid("build.commit_sha must be a hex sha (7-40 chars)")
        ELSE IF e.environment \notin {Absent, ""} /\ e.environment \notin Environments
          THEN Invalid("environment must be preview|production|dev")
        ELSE IF verdict \notin {Absent, ""} /\ verdict \notin Verdicts
          THEN Invalid("overall_verdict invalid")
        ELSE IF verdict \in {"FAIL", "BLOCKED"} /\ e.severity \notin Severities
          THEN Invalid("severity is required for FAIL/BLOCKED and must be P0|P1|P2|P3")
        ELSE IF verdict \in {"FAIL", "BLOCKED"} /\ ShortRepro(e) # Absent
          THEN Invalid(ShortRepro(e) \o " is required for FAIL/BLOCKED (min length 3)")
        ELSE [ok |-> TRUE, message |-> "", event |-> <<ValidatedEvent(e)>>]

-----------------------------------------------------------------------------
(* Canonical payload and hash *)

\* JSON.stringify(event): the keys in the order validateEvent wrote them, the
\* undefined ones left out
JsonStringify(event) ==
    LET there(k) == IF k = "build" THEN event[k] # <<>>
                    ELSE IF k = "issue_number" THEN TRUE
                    ELSE event[k] # Absent
    IN  [k \in {k \in DOMAIN event : there(k)} |-> event[k]]

\* JSON.parse of a stored payload_json, and the read of a key that may be missing
safeParseEvent(payloadJson) == payloadJson

Field(obj, k) == IF k \in DOMAIN obj THEN obj[k] ELSE Absent

\* SHA-256 taken as injective: the digest stands for the text it was taken from
sha256Hex(input) == <<"sha256", input>>

-----------------------------------------------------------------------------
(* Provenance *)

\* event.build?.pr && event.build.commit_sha
HasPrAndSha(event) ==
    /\ event.build # <<>>
    /\ event.build[1].pr # 0
    /\ event.build[1].commit_sha # ""

\* (variant) the head SHA as the forge spells it
HeadShaAsSpelled(head) == StrOrEmpty(head)

\* getPullRequestHeadSha: String(pr.head?.sha || "").toLowerCase()
HeadShaOf(head) == ToLowerCase(StrOrEmpty(head))

\* provenanceVerified = (prHeadSha === event.build.commit_sha.toLowerCase())
ShaMatches(prHeadSha, event) == prHeadSha = ToLowerCase(event.build[1].commit_sha)

\* (variant) every unverified verdict downgraded
DowngradeAny(verdict, verified) ==
    IF verified # VTrue THEN "PASS_UNVERIFIED" ELSE verdict

\* if (!provenanceVerified && effectiveVerdict === "PASS") effectiveVerdict = "PASS_UNVERIFIED"
Downgrade(verdict, verified) ==
    IF verified # VTrue /\ verdict = "PASS" THEN "PASS_UNVERIFIED" ELSE verdict

\* sha.slice(0, 7) on the spellings the model uses
Slice7(sha) ==
    CASE sha = "abc1234def" -> "abc1234"
      [] sha = "ffffffffff" -> "fffffff"
      [] OTHER -> sha

formatShortSha(sha) == IF sha \in {Absent, ""} THEN "n/a" ELSE Slice7(sha)

-----------------------------------------------------------------------------
(* Label rules *)

\* parseLabelRules gave null, or rules[eventType] is missing, or neither key is there
NoRule == "<no rule>"

\* (variant) the exact key only, no default rule
RuleKeyExact(rules, eventType, verdict) ==
    IF ~rules.ok THEN NoRule
    ELSE IF eventType \notin DOMAIN rules.table THEN NoRule
    ELSE IF verdict \in DOMAIN rules.table[eventType] THEN verdict
    ELSE NoRule

\* the key of typeRule whose rule applyLabelRules applies, or NoRule.  rules is
\* [ok, table]: ok is FALSE when LABEL_RULES_JSON does not parse to an object.
RuleKey(rules, eventType, verdict) ==
    IF ~rules.ok THEN NoRule
    ELSE IF eventType \notin DOMAIN rules.table THEN NoRule
    ELSE LET typeRule == rules.table[eventType]
             key == IF verdict = Absent THEN "_" ELSE verdict
         IN  IF key \in DOMAIN typeRule THEN key
             ELSE IF "_" \in DOMAIN typeRule THEN "_"
             ELSE NoRule

\* (variant) the labels of remove deleted before those of add are added
NextLabelsRemoveFirst(current, rule) == (current \ rule.remove) \cup rule.add

\* next = new Set(current); add each of add; delete each of remove
NextLabels(current, rule) == (current \cup rule.add) \ rule.remove

-----------------------------------------------------------------------------
(* The issue's comment list and its pages *)

\* An item of the list is one comment (n = 1) or a run of n comments that do
\* not carry the marker and that nobody edits (id 0).
BodyHasMarker(body) == body.first = RELAY_STATUS_MARKER

OtherBody == [first |-> "some other text"]

Filler(n) == [id |-> 0, n |-> n, body |-> OtherBody]

RECURSIVE CountBefore(_, _)
CountBefore(cs, i) == IF i <= 1 THEN 0 ELSE CountBefore(cs, i - 1) + cs[i - 1].n

TotalComments(cs) == CountBefore(cs, Len(cs) + 1)

MarkerItems(cs) == {i \in 1..Len(cs) : BodyHasMarker(cs[i].body)}

MarkerCount(cs) == Cardinality(MarkerItems(cs))

Min(S) == CHOOSE x \in S : \A y \in S : x <= y

\* comments.length of GET .../comments?per_page=100&page=<page>
PageLength(cs, page) ==
    LET lo == (page - 1) * PER_PAGE
        t == TotalComments(cs)
    IN  IF t <= lo THEN 0 ELSE IF t - lo >= PER_PAGE THEN PER_PAGE ELSE t - lo

\* (variant) the last comment of the page that carries the marker
FindLastOnPage(cs, page) ==
    LET lo == (page - 1) * PER_PAGE
        hit == {i \in MarkerItems(cs) :
                   CountBefore(cs, i) >= lo /\ CountBefore(cs, i) < lo + PER_PAGE}
    IN  IF hit = {} THEN 0 ELSE cs[CHOOSE i \in hit : \A j \in hit : j <= i].id

\* comments.find(c => c.body.includes(RELAY_STATUS_MARKER)) on that page: the
\* id of the first such comment, 0 when the page has none
FindOnPage(cs, page) ==
    LET lo == (page - 1) * PER_PAGE
        hit == {i \in MarkerItems(cs) :
                   CountBefore(cs, i) >= lo /\ CountBefore(cs, i) < lo + PER_PAGE}
    IN  IF hit = {} THEN 0 ELSE cs[Min(hit)].id

CommentIds(cs) == {cs[i].id : i \in 1..Len(cs)} \ {0}

\* PATCH .../issues/comments/<id>: the comment's body replaced
WithBody(cs, id, body) ==
    [i \in 1..Len(cs) |-> IF cs[i].id = id THEN [cs[i] EXCEPT !.body = body] ELSE cs[i]]

-----------------------------------------------------------------------------
(* Rendering *)

\* ORDER BY created_at DESC LIMIT 1 over the rows of one type: <<>> or one row;
\* (variant) a query that matches no row
LatestByTypeNone(rows, repo, issueNumber, eventType) == {<<>>}

\* rows of equal created_at come in either order
LatestByType(rows, repo, issueNumber, eventType) ==
    LET of == {x \in rows : /\ x.repo = repo
                            /\ x.issue_number = issueNumber
                            /\ x.event_type = eventType}
    IN  IF of = {} THEN {<<>>}
        ELSE {<<x>> : x \in {x \in of : \A y \in of : y.created_at <= x.created_at}}

\* (variant) the recent-activity query without its filter on repo and issue
RecentAnyIssue(rows, repo, issueNumber, limit) ==
    LET k == IF Cardinality(rows) < limit THEN Cardinality(rows) ELSE limit
    IN  {s \in [1..k -> rows] :
            /\ \A i, j \in 1..k : i < j => /\ s[i] # s[j]
                                           /\ s[i].created_at >= s[j].created_at
            /\ \A x \in rows : (\A i \in 1..k : s[i] # x) =>
                                 \A i \in 1..k : x.created_at <= s[i].created_at}

\* ORDER BY created_at DESC LIMIT limit: the possible result lists
RecentLists(rows, repo, issueNumber, limit) ==
    LET of == {x \in rows : x.repo = repo /\ x.issue_number = issueNumber}
        k == IF Cardinality(of) < limit THEN Cardinality(of) ELSE limit
    IN  {s \in [1..k -> of] :
            /\ \A i, j \in 1..k : i < j => /\ s[i] # s[j]
                                           /\ s[i].created_at >= s[j].created_at
            /\ \A x \in of : (\A i \in 1..k : s[i] # x) =>
                                 \A i \in 1..k : x.created_at <= s[i].created_at}

RecentLine(row) ==
    [created_at |-> row.created_at, event_type |-> row.event_type, agent |-> row.agent]

\* the Provenance line of the comment
ProvenanceLine(verified, prHeadSha) ==
    IF verified = VNull THEN <<"n/a">>
    ELSE IF verified = VTrue THEN <<"VERIFIED (matches PR head)">>
    ELSE <<"UNVERIFIED (PR head: ", formatShortSha(prHeadSha), ")">>

\* (variant) the body beginning with its heading, the marker left out
renderHeadingFirst(issueLabels, issueNumber, event, verified, prHeadSha, latestDev, latestQa, recent) ==
    [first |-> "## Relay Status",
     issueNumber |-> issueNumber,
     labels |-> issueLabels,
     environment |-> IF event.environment = Absent THEN "unknown" ELSE event.environment,
     pr |-> IF event.build = <<>> THEN 0 ELSE event.build[1].pr,
     commit |-> IF event.build = <<>> THEN "n/a" ELSE formatShortSha(event.build[1].commit_sha),
     provenance |-> ProvenanceLine(verified, prHeadSha),
     devSummary |-> IF latestDev = <<>> \/ Field(latestDev[1], "summary") \in {Absent, ""}
                      THEN "n/a" ELSE Field(latestDev[1], "summary"),
     qaVerdict |-> IF latestQa = <<>> \/ Field(latestQa[1], "overall_verdict") \in {Absent, ""}
                     THEN "n/a" ELSE Field(latestQa[1], "overall_verdict"),
     recent |-> [i \in 1..Len(recent) |-> RecentLine(recent[i])]]

\* renderRelayStatusMarkdown: the lines of the body that depend on the input,
\* the marker first
renderRelayStatusMarkdown(issueLabels, issueNumber, event, verified, prHeadSha, latestDev, latestQa, recent) ==
    [first |-> RELAY_STATUS_MARKER,
     issueNumber |-> issueNumber,
     labels |-> issueLabels,
     environment |-> IF event.environment = Absent THEN "unknown" ELSE event.environment,
     pr |-> IF event.build = <<>> THEN 0 ELSE event.build[1].pr,
     commit |-> IF event.build = <<>> THEN "n/a" ELSE formatShortSha(event.build[1].commit_sha),
     provenance |-> ProvenanceLine(verified, prHeadSha),
     devSummary |-> IF latestDev = <<>> \/ Field(latestDev[1], "summary") \in {Absent, ""}
                      THEN "n/a" ELSE Field(latestDev[1], "summary"),
     qaVerdict |-> IF latestQa = <<>> \/ Field(latestQa[1], "overall_verdict") \in {Absent, ""}
                     THEN "n/a" ELSE Field(latestQa[1], "overall_verdict"),
     recent |-> [i \in 1..Len(recent) |-> RecentLine(recent[i])]]

-----------------------------------------------------------------------------
(* Storage: the two D1 tables *)

\* (variant) the table without its primary key
InsertEventNoKey(rows, row) == [ok |-> TRUE, rows |-> rows \cup {row}]

\* (variant) INSERT OR REPLACE INTO events
InsertOrReplace(rows, row) ==
    [ok |-> TRUE, rows |-> {x \in rows : x.event_id # row.event_id} \cup {row}]

\* INSERT INTO events: event_id is the PRIMARY KEY, so the statement fails
\* when a row with that event_id is there
InsertEvent(rows, row) ==
    IF \E x \in rows : x.event_id = row.event_id
      THEN [ok |-> FALSE, rows |-> rows]
      ELSE [ok |-> TRUE, rows |-> rows \cup {row}]

\* (variant) the SELECT bound to a value no row has
SelectByEventIdNone(rows, eventId) == {}

\* SELECT payload_hash FROM events WHERE event_id = ?
SelectByEventId(rows, eventId) == {x \in rows : x.event_id = eventId}

\* SELECT comment_id FROM relay_status_comment WHERE repo = ? AND issue_number = ?
SelectMapping(rows, repo, issueNumber) ==
    {x \in rows : x.repo = repo /\ x.issue_number = issueNumber}

\* (variant) INSERT OR IGNORE: the first row of an issue stays
InsertMappingOrIgnore(rows, repo, issueNumber, commentId, at) ==
    IF \E x \in rows : x.repo = repo /\ x.issue_number = issueNumber
      THEN rows
      ELSE rows \cup {[repo |-> repo, issue_number |-> issueNumber,
                       comment_id |-> commentId, updated_at |-> at]}

\* (variant) the mapping table without its primary key
ReplaceMappingNoKey(rows, repo, issueNumber, commentId, at) ==
    rows \cup {[repo |-> repo, issue_number |-> issueNumber,
                comment_id |-> commentId, updated_at |-> at]}

\* INSERT OR REPLACE INTO relay_status_comment: PRIMARY KEY (repo, issue_number)
ReplaceMapping(rows, repo, issueNumber, commentId, at) ==
    (rows \ SelectMapping(rows, repo, issueNumber))
        \cup {[repo |-> repo, issue_number |-> issueNumber,
               comment_id |-> commentId, updated_at |-> at]}

\* UPDATE relay_status_comment SET updated_at = ? WHERE repo = ? AND issue_number = ?
TouchMapping(rows, repo, issueNumber, at) ==
    {IF x.repo = repo /\ x.issue_number = issueNumber
       THEN [x EXCEPT !.updated_at = at] ELSE x : x \in rows}

\* (variant) the row's hash and payload taken after the downgrade
EventRowAfterDowngrade(event, effectiveVerdict, at, payloadHash, payloadJson) ==
    [event_id |-> event.event_id,
     repo |-> event.repo,
     issue_number |-> event.issue_number,
     event_type |-> event.event_type,
     role |-> event.role,
     agent |-> event.agent,
     environment |-> event.environment,
     overall_verdict |-> effectiveVerdict,
     created_at |-> at,
     payload_hash |-> sha256Hex(JsonStringify([event EXCEPT !.overall_verdict = effectiveVerdict])),
     payload_json |-> JsonStringify([event EXCEPT !.overall_verdict = effectiveVerdict])]

\* the row handlePostEvents binds
EventRow(event, effectiveVerdict, at, payloadHash, payloadJson) ==
    [event_id |-> event.event_id,
     repo |-> event.repo,
     issue_number |-> event.issue_number,
     event_type |-> event.event_type,
     role |-> event.role,
     agent |-> event.agent,
     environment |-> event.environment,
     overall_verdict |-> effectiveVerdict,
     created_at |-> at,
     payload_hash |-> payloadHash,
     payload_json |-> payloadJson]

-----------------------------------------------------------------------------
(* Requests *)

Requests == DOMAIN pc

\* every slot a run can have
Slots == 1..(MaxRequests + MaxReplays)

NoCalls == [token |-> 0, pr |-> 0, issue |-> 0, list |-> 0,
            update |-> 0, create |-> 0, labels |-> 0]

NoResp == [status |-> 0]

\* how the handler's INSERT INTO events ended
NotRun == "not run"
Stored == "stored"
Duplicate == "duplicate"

\* the locals of handlePostEvents and of upsertRollingComment before they are set
NoLocals ==
    [payload |-> <<>>, event |-> <<>>, payloadJson |-> <<>>, payloadHash |-> <<>>,
     provenanceVerified |-> VNull, prHeadSha |-> Absent, effectiveVerdict |-> Absent,
     insert |-> NotRun,
     issue |-> {}, latestDev |-> <<>>, latestQa |-> <<>>, body |-> OtherBody,
     mapped |-> 0, page |-> 0, found |-> 0, commentId |-> 0, upsertFrom |-> <<>>,
     ruleKey |-> NoRule, current |-> {}]

Ev(r) == loc[r].event[1]

\* a request that has not arrived; id and r2Key are the locals of
\* handleEvidenceUpload and handleEvidenceGet before they are set
NoEvidence == [route |-> "", key |-> TRUE, id |-> "", r2Key |-> <<>>, file |-> <<>>, contentType |-> ""]

\* request r arrives on a route of fetch with its X-Relay-Key header
Arrive(r, route, key) == ev' = [ev EXCEPT ![r] = [NoEvidence EXCEPT !.route = route, !.key = key]]

\* requests whose handler has started and not yet answered
InFlight == {r \in Requests : pc[r] \notin {"idle", "done"}}

\* return a response
Respond(r, response) ==
    /\ pc' = [pc EXCEPT ![r] = "done"]
    /\ resp' = [resp EXCEPT ![r] = response]

\* the catch of the fetch handler around handlePostEvents
InternalError(r, details) ==
    Respond(r, [status |-> 500, error |-> "Internal error", details |-> details])

Called(r, kind) == calls' = [calls EXCEPT ![r][kind] = @ + 1]

Goto(r, label) == pc' = [pc EXCEPT ![r] = label] /\ UNCHANGED resp

-----------------------------------------------------------------------------
(* handlePostEvents, up to the idempotency check *)

\* requireAuth, req.json, validateEvent, JSON.stringify and sha256Hex: no shared
\* state is read before the idempotency SELECT
Receive(r) ==
    /\ r \in Requests
    /\ pc[r] = "idle"
    /\ \A q \in Requests : q < r => pc[q] # "idle"
    /\ cfg.sequential => InFlight = {}
    /\ \E key \in cfg.keys, payload \in cfg.payloads :
         /\ Arrive(r, "events", key)
         /\ IF ~key
              THEN /\ Respond(r, [status |-> 401])
                   /\ UNCHANGED loc
            ELSE IF ~validateEvent(payload).ok
              THEN /\ Respond(r, [status |-> 400, error |-> validateEvent(payload).message])
                   /\ loc' = [loc EXCEPT ![r].payload = <<payload>>]
            ELSE LET event == validateEvent(payload).event[1]
                     payloadJson == JsonStringify(event)
                 IN  /\ loc' = [loc EXCEPT ![r] = [@ EXCEPT
                                   !.payload = <<payload>>,
                                   !.event = <<event>>,
                                   !.payloadJson = <<payloadJson>>,
                                   !.payloadHash = sha256Hex(payloadJson)]]
                     /\ Goto(r, "lookup")
    /\ UNCHANGED <<assets, bucket, events, statusMap, comments, labels, prHead, nextId, now, cfg, calls>>

\* (variant) the row written as soon as the idempotency check found none
LookupInserts(r) ==
    /\ r \in Requests
    /\ pc[r] = "lookup"
    /\ IF SelectByEventId(events, Ev(r).event_id) = {}
         THEN /\ events' = InsertEvent(events, EventRow(Ev(r), Ev(r).overall_verdict, now,
                                                        loc[r].payloadHash,
                                                        loc[r].payloadJson[1])).rows
              /\ Goto(r, "token")
         ELSE /\ UNCHANGED events
              /\ \E existing \in SelectByEventId(events, Ev(r).event_id) :
                   IF existing.payload_hash # loc[r].payloadHash
                     THEN Respond(r, [status |-> 409,
                                      error |-> "event_id already exists with different payload",
                                      event_id |-> Ev(r).event_id,
                                      existing_hash |-> existing.payload_hash,
                                      new_hash |-> loc[r].payloadHash])
                     ELSE Respond(r, [status |-> 200, ok |-> TRUE, idempotent |-> TRUE,
                                      event_id |-> Ev(r).event_id])
    /\ UNCHANGED <<assets, bucket, ev, statusMap, comments, labels, prHead, nextId, now, cfg, loc, calls>>

\* (variant) the installation token minted before the idempotency check
LookupMintsFirst(r) ==
    /\ r \in Requests
    /\ pc[r] = "lookup"
    /\ Called(r, "token")
    /\ IF SelectByEventId(events, Ev(r).event_id) = {}
         THEN Goto(r, "token")
         ELSE \E existing \in SelectByEventId(events, Ev(r).event_id) :
                IF existing.payload_hash # loc[r].payloadHash
                  THEN Respond(r, [status |-> 409,
                                   error |-> "event_id already exists with different payload",
                                   event_id |-> Ev(r).event_id,
                                   existing_hash |-> existing.payload_hash,
                                   new_hash |-> loc[r].payloadHash])
                  ELSE Respond(r, [status |-> 200, ok |-> TRUE, idempotent |-> TRUE,
                                   event_id |-> Ev(r).event_id])
    /\ UNCHANGED <<assets, bucket, ev, events, statusMap, comments, labels, prHead, nextId, now, cfg, loc>>

\* (variant) an existing row answered as a replay whatever its hash
LookupIgnoresHash(r) ==
    /\ r \in Requests
    /\ pc[r] = "lookup"
    /\ IF SelectByEventId(events, Ev(r).event_id) = {}
         THEN Goto(r, "token")
         ELSE Respond(r, [status |-> 200, ok |-> TRUE, idempotent |-> TRUE,
                          event_id |-> Ev(r).event_id])
    /\ UNCHANGED <<assets, bucket, ev, events, statusMap, comments, labels, prHead, nextId, now, cfg, loc, calls>>

\* the idempotency check: SELECT payload_hash FROM events WHERE event_id = ?
Lookup(r) ==
    /\ r \in Requests
    /\ pc[r] = "lookup"
    /\ IF SelectByEventId(events, Ev(r).event_id) = {}
         THEN Goto(r, "token")
         ELSE \E existing \in SelectByEventId(events, Ev(r).event_id) :
                IF existing.payload_hash # loc[r].payloadHash
                  THEN Respond(r, [status |-> 409,
                                   error |-> "event_id already exists with different payload",
                                   event_id |-> Ev(r).event_id,
                                   existing_hash |-> existing.payload_hash,
                                   new_hash |-> loc[r].payloadHash])
                  ELSE Respond(r, [status |-> 200, ok |-> TRUE, idempotent |-> TRUE,
                                   event_id |-> Ev(r).event_id])
    /\ UNCHANGED <<assets, bucket, ev, events, statusMap, comments, labels, prHead, nextId, now, cfg, loc, calls>>

\* (variant) a token kept at module level: a request takes the one another
\* request minted
GetTokenShared(r) ==
    /\ r \in Requests
    /\ pc[r] = "token"
    /\ IF \E q \in Requests \ {r} : calls[q].token >= 1
         THEN UNCHANGED calls
         ELSE Called(r, "token")
    /\ loc' = [loc EXCEPT ![r] = [@ EXCEPT
                 !.provenanceVerified = VNull,
                 !.prHeadSha = Absent,
                 !.effectiveVerdict = Ev(r).overall_verdict]]
    /\ Goto(r, IF HasPrAndSha(Ev(r)) THEN "prFetch" ELSE "insert")
    /\ UNCHANGED <<assets, bucket, ev, events, statusMap, comments, labels, prHead, nextId, now, cfg>>

\* await getGhToken(): the first use in the request mints the installation token
GetToken(r) ==
    /\ r \in Requests
    /\ pc[r] = "token"
    /\ Called(r, "token")
    /\ \E ok \in BOOLEAN :
         IF ok
           THEN /\ loc' = [loc EXCEPT ![r] = [@ EXCEPT
                            !.provenanceVerified = VNull,
                            !.prHeadSha = Absent,
                            !.effectiveVerdict = Ev(r).overall_verdict]]
                /\ Goto(r, IF HasPrAndSha(Ev(r)) THEN "prFetch" ELSE "insert")
           ELSE /\ InternalError(r, "GitHub installation token error")
                /\ UNCHANGED loc
    /\ UNCHANGED <<assets, bucket, ev, events, statusMap, comments, labels, prHead, nextId, now, cfg>>

\* the provenance check: getPullRequestHeadSha and the downgrade
PrFetch(r) ==
    /\ r \in Requests
    /\ pc[r] = "prFetch"
    /\ Called(r, "pr")
    /\ \E ok \in BOOLEAN :
         IF ok
           THEN LET prHeadSha == HeadShaOf(prHead)
                    verified == IF ShaMatches(prHeadSha, Ev(r)) THEN VTrue ELSE VFalse
                IN  /\ loc' = [loc EXCEPT ![r] = [@ EXCEPT
                                 !.prHeadSha = prHeadSha,
                                 !.provenanceVerified = verified,
                                 !.effectiveVerdict = Downgrade(@, verified)]]
                    /\ Goto(r, "insert")
           ELSE /\ InternalError(r, "GitHub PR fetch error")
                /\ UNCHANGED loc
    /\ UNCHANGED <<assets, bucket, ev, events, statusMap, comments, labels, prHead, nextId, now, cfg>>

\* (variant) the pipeline going on without its INSERT
InsertSkipped(r) ==
    /\ r \in Requests
    /\ pc[r] = "insert"
    /\ Goto(r, "issue")
    /\ UNCHANGED <<assets, bucket, ev, events, statusMap, comments, labels, prHead, nextId, now,
                   cfg, loc, calls>>

\* (variant) INSERT OR IGNORE: a duplicate event_id is passed over in silence
InsertOrIgnore(r) ==
    /\ r \in Requests
    /\ pc[r] = "insert"
    /\ \E at \in {now, now + 1} :
         LET row == EventRow(Ev(r), loc[r].effectiveVerdict, at,
                             loc[r].payloadHash, loc[r].payloadJson[1])
             done == InsertEvent(events, row)
         IN  /\ now' = at
             /\ events' = done.rows
             /\ loc' = [loc EXCEPT ![r].insert = IF done.ok THEN Stored ELSE Duplicate]
             /\ Goto(r, "issue")
    /\ UNCHANGED <<assets, bucket, ev, statusMap, comments, labels, prHead, nextId, cfg, calls>>

\* Persist event: INSERT INTO events, created_at read from the clock, which may
\* have advanced since it was last read
Insert(r) ==
    /\ r \in Requests
    /\ pc[r] = "insert"
    /\ \E at \in {now, now + 1} :
         LET row == EventRow(Ev(r), loc[r].effectiveVerdict, at,
                             loc[r].payloadHash, loc[r].payloadJson[1])
             done == InsertEvent(events, row)
         IN  /\ now' = at
             /\ events' = done.rows
             /\ IF done.ok
                  THEN /\ loc' = [loc EXCEPT ![r].insert = Stored]
                       /\ Goto(r, "issue")
                  ELSE /\ loc' = [loc EXCEPT ![r].insert = Duplicate]
                       /\ InternalError(r, "UNIQUE constraint failed: events.event_id")
    /\ UNCHANGED <<assets, bucket, ev, statusMap, comments, labels, prHead, nextId, cfg, calls>>

-----------------------------------------------------------------------------
(* handlePostEvents: what the rolling comment is rendered from *)

\* (variant) a failed issue fetch takes the event row back
FetchIssueRollsBack(r) ==
    /\ r \in Requests
    /\ pc[r] = "issue"
    /\ Called(r, "issue")
    /\ \E ok \in BOOLEAN :
         IF ok
           THEN /\ loc' = [loc EXCEPT ![r].issue = labels]
                /\ Goto(r, "latestDev")
                /\ UNCHANGED events
           ELSE /\ InternalError(r, "GitHub issue fetch error")
                /\ events' = {x \in events : x.event_id # Ev(r).event_id}
                /\ UNCHANGED loc
    /\ UNCHANGED <<assets, bucket, ev, statusMap, comments, labels, prHead, nextId, now, cfg>>

\* Fetch issue for rendering: getIssueDetails
FetchIssue(r) ==
    /\ r \in Requests
    /\ pc[r] = "issue"
    /\ Called(r, "issue")
    /\ \E ok \in BOOLEAN :
         IF ok
           THEN /\ loc' = [loc EXCEPT ![r].issue = labels]
                /\ Goto(r, "latestDev")
           ELSE /\ InternalError(r, "GitHub issue fetch error")
                /\ UNCHANGED loc
    /\ UNCHANGED <<assets, bucket, ev, events, statusMap, comments, labels, prHead, nextId, now, cfg>>

\* getLatestEventByType(..., "dev.update")
LatestDev(r) ==
    /\ r \in Requests
    /\ pc[r] = "latestDev"
    /\ \E row \in LatestByType(events, Ev(r).repo, Ev(r).issue_number, "dev.update") :
         loc' = [loc EXCEPT ![r].latestDev =
                    IF row = <<>> THEN <<>> ELSE <<safeParseEvent(row[1].payload_json)>>]
    /\ Goto(r, "latestQa")
    /\ UNCHANGED <<assets, bucket, ev, events, statusMap, comments, labels, prHead, nextId, now, cfg, calls>>

\* getLatestEventByType(..., "qa.result_submitted")
LatestQa(r) ==
    /\ r \in Requests
    /\ pc[r] = "latestQa"
    /\ \E row \in LatestByType(events, Ev(r).repo, Ev(r).issue_number, "qa.result_submitted") :
         loc' = [loc EXCEPT ![r].latestQa =
                    IF row = <<>> THEN <<>> ELSE <<safeParseEvent(row[1].payload_json)>>]
    /\ Goto(r, "recent")
    /\ UNCHANGED <<assets, bucket, ev, events, statusMap, comments, labels, prHead, nextId, now, cfg, calls>>

\* getRecentEvents(..., 5), then renderRelayStatusMarkdown
Recent(r) ==
    /\ r \in Requests
    /\ pc[r] = "recent"
    /\ \E recent \in RecentLists(events, Ev(r).repo, Ev(r).issue_number, RECENT_LIMIT) :
         loc' = [loc EXCEPT ![r].body =
                    renderRelayStatusMarkdown(loc[r].issue, Ev(r).issue_number, Ev(r),
                                              loc[r].provenanceVerified, loc[r].prHeadSha,
                                              loc[r].latestDev, loc[r].latestQa, recent)]
    /\ Goto(r, "mapping")
    /\ UNCHANGED <<assets, bucket, ev, events, statusMap, comments, labels, prHead, nextId, now, cfg, calls>>

-----------------------------------------------------------------------------
(* upsertRollingComment *)

\* what the upsert starts from: the marker comments there are, whether the scan
\* can reach them all, and what the mapping row points at
UpsertFrom(rows, cs, repo, issueNumber) ==
    LET m == SelectMapping(rows, repo, issueNumber)
        ids == {x.comment_id : x \in m}
    IN  [markers |-> MarkerCount(cs),
         reachable |-> \A i \in MarkerItems(cs) : CountBefore(cs, i) < PER_PAGE * MAX_PAGES,
         mapping |-> IF m = {} THEN "absent"
                     ELSE IF ids \cap CommentIds(cs) = {} THEN "deleted"
                     ELSE IF \A i \in 1..Len(cs) : cs[i].id \in ids => BodyHasMarker(cs[i].body)
                       THEN "marker"
                     ELSE "other"]

\* (variant) the reported verdict handed to applyLabelRules
LabelVerdictReported(r) == Ev(r).overall_verdict

\* the verdict handlePostEvents hands to applyLabelRules
LabelVerdict(r) == loc[r].effectiveVerdict

\* after upsertRollingComment returned commentId: applyLabelRules up to its
\* first await, and the 201 when no rule applies
Upserted(r, commentId) ==
    LET key == RuleKey(cfg.rules, Ev(r).event_type, LabelVerdict(r))
    IN  /\ loc' = [loc EXCEPT ![r] = [@ EXCEPT !.commentId = commentId, !.ruleKey = key]]
        /\ IF key = NoRule
             THEN Respond(r, [status |-> 201, ok |-> TRUE, event_id |-> Ev(r).event_id,
                              stored |-> TRUE, rolling_comment_id |-> commentId,
                              verdict |-> loc[r].effectiveVerdict,
                              provenance_verified |-> loc[r].provenanceVerified])
             ELSE Goto(r, "labelIssue")

\* 1) Try D1 mapping
MapSelect(r) ==
    /\ r \in Requests
    /\ pc[r] = "mapping"
    /\ IF SelectMapping(statusMap, Ev(r).repo, Ev(r).issue_number) = {}
         THEN /\ loc' = [loc EXCEPT ![r] = [@ EXCEPT
                           !.mapped = 0, !.page = 1, !.found = 0,
                           !.upsertFrom = <<UpsertFrom(statusMap, comments, Ev(r).repo,
                                                       Ev(r).issue_number)>>]]
              /\ Goto(r, "scan")
         ELSE \E m \in SelectMapping(statusMap, Ev(r).repo, Ev(r).issue_number) :
                /\ loc' = [loc EXCEPT ![r] = [@ EXCEPT
                             !.mapped = m.comment_id,
                             !.upsertFrom = <<UpsertFrom(statusMap, comments, Ev(r).repo,
                                                         Ev(r).issue_number)>>]]
                /\ Goto(r, "updateMapped")
    /\ UNCHANGED <<assets, bucket, ev, events, statusMap, comments, labels, prHead, nextId, now, cfg, calls>>

\* (variant) the update of the mapped comment outside the try
UpdateMappedThrows(r) ==
    /\ r \in Requests
    /\ pc[r] = "updateMapped"
    /\ Called(r, "update")
    /\ \E ok \in BOOLEAN :
         IF ok /\ loc[r].mapped \in CommentIds(comments)
           THEN /\ comments' = WithBody(comments, loc[r].mapped, loc[r].body)
                /\ Goto(r, "touchMapping")
           ELSE /\ UNCHANGED comments
                /\ InternalError(r, "GitHub update comment error")
    /\ UNCHANGED <<assets, bucket, ev, events, statusMap, labels, prHead, nextId, now, cfg, loc>>

\* updateIssueComment(mapped.comment_id) inside the try: a failure falls through
\* to the scan; a comment that is gone answers 404
UpdateMapped(r) ==
    /\ r \in Requests
    /\ pc[r] = "updateMapped"
    /\ Called(r, "update")
    /\ \E ok \in BOOLEAN :
         IF ok /\ loc[r].mapped \in CommentIds(comments)
           THEN /\ comments' = WithBody(comments, loc[r].mapped, loc[r].body)
                /\ UNCHANGED loc
                /\ Goto(r, "touchMapping")
           ELSE /\ UNCHANGED comments
                /\ loc' = [loc EXCEPT ![r] = [@ EXCEPT !.page = 1, !.found = 0]]
                /\ Goto(r, "scan")
    /\ UNCHANGED <<assets, bucket, ev, events, statusMap, labels, prHead, nextId, now, cfg>>

\* UPDATE relay_status_comment SET updated_at; return mapped.comment_id
TouchMap(r) ==
    /\ r \in Requests
    /\ pc[r] = "touchMapping"
    /\ statusMap' = TouchMapping(statusMap, Ev(r).repo, Ev(r).issue_number, now)
    /\ Upserted(r, loc[r].mapped)
    /\ UNCHANGED <<assets, bucket, ev, events, comments, labels, prHead, nextId, now, cfg, calls>>

\* (variant) the scan without its loop: the first page only
ScanFirstPageOnly(r) ==
    /\ r \in Requests
    /\ pc[r] = "scan"
    /\ Called(r, "list")
    /\ \E ok \in BOOLEAN :
         IF ok
           THEN LET found == FindOnPage(comments, loc[r].page)
                IN  /\ loc' = [loc EXCEPT ![r].found = found]
                    /\ Goto(r, IF found # 0 THEN "updateFound" ELSE "create")
           ELSE /\ InternalError(r, "GitHub list comments error")
                /\ UNCHANGED loc
    /\ UNCHANGED <<assets, bucket, ev, events, statusMap, comments, labels, prHead, nextId, now, cfg>>

\* (variant) the scan loop without its page limit
ScanNoLimit(r) ==
    /\ r \in Requests
    /\ pc[r] = "scan"
    /\ Called(r, "list")
    /\ \E ok \in BOOLEAN :
         IF ok
           THEN LET found == FindOnPage(comments, loc[r].page)
                    last == PageLength(comments, loc[r].page) < PER_PAGE
                    page == IF last THEN loc[r].page ELSE loc[r].page + 1
                IN  /\ loc' = [loc EXCEPT ![r] = [@ EXCEPT !.found = found, !.page = page]]
                    /\ Goto(r, IF found # 0 THEN "updateFound"
                               ELSE IF last THEN "create"
                               ELSE "scan")
           ELSE /\ InternalError(r, "GitHub list comments error")
                /\ UNCHANGED loc
    /\ UNCHANGED <<assets, bucket, ev, events, statusMap, comments, labels, prHead, nextId, now, cfg>>

\* 2) one turn of the scan loop: list a page, look for the marker on it
Scan(r) ==
    /\ r \in Requests
    /\ pc[r] = "scan"
    /\ Called(r, "list")
    /\ \E ok \in BOOLEAN :
         IF ok
           THEN LET found == FindOnPage(comments, loc[r].page)
                    last == PageLength(comments, loc[r].page) < PER_PAGE
                    page == IF last THEN loc[r].page ELSE loc[r].page + 1
                IN  /\ loc' = [loc EXCEPT ![r] = [@ EXCEPT !.found = found, !.page = page]]
                    /\ Goto(r, IF found # 0 THEN "updateFound"
                               ELSE IF last \/ page > MAX_PAGES THEN "create"
                               ELSE "scan")
           ELSE /\ InternalError(r, "GitHub list comments error")
                /\ UNCHANGED loc
    /\ UNCHANGED <<assets, bucket, ev, events, statusMap, comments, labels, prHead, nextId, now, cfg>>

\* updateIssueComment(found.id): not in a try
UpdateFound(r) ==
    /\ r \in Requests
    /\ pc[r] = "updateFound"
    /\ Called(r, "update")
    /\ \E ok \in BOOLEAN :
         IF ok /\ loc[r].found \in CommentIds(comments)
           THEN /\ comments' = WithBody(comments, loc[r].found, loc[r].body)
                /\ loc' = [loc EXCEPT ![r].commentId = loc[r].found]
                /\ Goto(r, "putMapping")
           ELSE /\ InternalError(r, "GitHub update comment error")
                /\ UNCHANGED <<comments, loc>>
    /\ UNCHANGED <<assets, bucket, ev, events, statusMap, labels, prHead, nextId, now, cfg>>

\* 3) Create new comment
Create(r) ==
    /\ r \in Requests
    /\ pc[r] = "create"
    /\ Called(r, "create")
    /\ \E ok \in BOOLEAN :
         IF ok
           THEN /\ comments' = Append(comments, [id |-> nextId, n |-> 1, body |-> loc[r].body])
                /\ nextId' = nextId + 1
                /\ loc' = [loc EXCEPT ![r].commentId = nextId]
                /\ Goto(r, "putMapping")
           ELSE /\ InternalError(r, "GitHub create comment error")
                /\ UNCHANGED <<comments, nextId, loc>>
    /\ UNCHANGED <<assets, bucket, ev, events, statusMap, labels, prHead, now, cfg>>

\* INSERT OR REPLACE INTO relay_status_comment; return commentId
PutMap(r) ==
    /\ r \in Requests
    /\ pc[r] = "putMapping"
    /\ statusMap' = ReplaceMapping(statusMap, Ev(r).repo, Ev(r).issue_number,
                                   loc[r].commentId, now)
    /\ Upserted(r, loc[r].commentId)
    /\ UNCHANGED <<assets, bucket, ev, events, comments, labels, prHead, nextId, now, cfg, calls>>

-----------------------------------------------------------------------------
(* applyLabelRules *)

\* getIssueDetails, for the current labels
LabelIssue(r) ==
    /\ r \in Requests
    /\ pc[r] = "labelIssue"
    /\ Called(r, "issue")
    /\ \E ok \in BOOLEAN :
         IF ok
           THEN /\ loc' = [loc EXCEPT ![r].current = labels]
                /\ Goto(r, "putLabels")
           ELSE /\ InternalError(r, "GitHub issue fetch error")
                /\ UNCHANGED loc
    /\ UNCHANGED <<assets, bucket, ev, events, statusMap, comments, labels, prHead, nextId, now, cfg>>

\* (variant) the labels added in one call and removed in another
PutLabelsTwoCalls(r) ==
    /\ r \in Requests
    /\ pc[r] = "putLabels"
    /\ calls' = [calls EXCEPT ![r].labels = @ + 2]
    /\ \E ok \in BOOLEAN :
         IF ok
           THEN /\ labels' = NextLabels(loc[r].current,
                                        cfg.rules.table[Ev(r).event_type][loc[r].ruleKey])
                /\ Respond(r, [status |-> 201, ok |-> TRUE, event_id |-> Ev(r).event_id,
                               stored |-> TRUE, rolling_comment_id |-> loc[r].commentId,
                               verdict |-> loc[r].effectiveVerdict,
                               provenance_verified |-> loc[r].provenanceVerified])
           ELSE /\ UNCHANGED labels
                /\ InternalError(r, "GitHub update labels error")
    /\ UNCHANGED <<assets, bucket, ev, events, statusMap, comments, prHead, nextId, now, cfg, loc>>

\* putIssueLabels(Array.from(next)), then the 201
PutLabels(r) ==
    /\ r \in Requests
    /\ pc[r] = "putLabels"
    /\ Called(r, "labels")
    /\ \E ok \in BOOLEAN :
         IF ok
           THEN /\ labels' = NextLabels(loc[r].current,
                                        cfg.rules.table[Ev(r).event_type][loc[r].ruleKey])
                /\ Respond(r, [status |-> 201, ok |-> TRUE, event_id |-> Ev(r).event_id,
                               stored |-> TRUE, rolling_comment_id |-> loc[r].commentId,
                               verdict |-> loc[r].effectiveVerdict,
                               provenance_verified |-> loc[r].provenanceVerified])
           ELSE /\ UNCHANGED labels
                /\ InternalError(r, "GitHub update labels error")
    /\ UNCHANGED <<assets, bucket, ev, events, statusMap, comments, prHead, nextId, now, cfg, loc>>

-----------------------------------------------------------------------------
(* The evidence endpoints *)

\* crypto.randomUUID(): an id no other request gets
randomUUID(r) ==
    CASE r = 1 -> "ev-1" [] r = 2 -> "ev-2" [] r = 3 -> "ev-3"
      [] r = 4 -> "ev-4" [] OTHER -> "ev-5"

\* the multipart forms callers post to /v2/evidence
GoodForm == [multipart |-> TRUE, repo |-> "acme/web", issue_number |-> "42",
             file |-> TRUE, filename |-> "shot.png", type |-> "image/png", bytes |-> "png bytes"]

\* a file part that names neither itself nor its type
BareForm == [GoodForm EXCEPT !.filename = "", !.type = "", !.bytes = "log bytes"]

Uploads == {GoodForm,
            BareForm,
            [GoodForm EXCEPT !.multipart = FALSE],
            [GoodForm EXCEPT !.issue_number = ""],
            [GoodForm EXCEPT !.file = FALSE]}

\* fileBlob.name || "upload.bin" and fileBlob.type || "application/octet-stream"
OrDefault(x, default) == IF x = "" THEN default ELSE x

\* the bucket: one record for each key ever written, present until the
\* object is removed
Object(key, body, contentType) == [key |-> key, body |-> body, contentType |-> contentType, present |-> TRUE]

BucketPut(objects, object) == {o \in objects : o.key # object.key} \cup {object}

BucketGet(objects, key) == {o \in objects : o.key = key /\ o.present}

\* the <id> of GET /v2/evidence/<id>: none, ids uploads were given, an unknown one
EvidenceIds == {"", "ev-1", "ev-2", "ev-none"}

\* POST /v2/evidence up to the first await of handleEvidenceUpload
EvidenceUpload(r) ==
    /\ r \in Requests
    /\ pc[r] = "idle"
    /\ \A q \in Requests : q < r => pc[q] # "idle"
    /\ cfg.sequential => InFlight = {}
    /\ \E key \in cfg.keys, form \in Uploads :
         LET repo == Trim(form.repo)
             issueNumber == safeInt(JStr(form.issue_number))
         IN  IF ~key
               THEN /\ Respond(r, [status |-> 401])
                    /\ Arrive(r, "upload", key)
             ELSE IF ~form.multipart
               THEN /\ Respond(r, [status |-> 400, error |-> "Expected multipart/form-data"])
                    /\ Arrive(r, "upload", key)
             ELSE IF repo = "" \/ ~isRepoSlug(repo) \/ issueNumber \in {<<>>, <<0>>}
               THEN /\ Respond(r, [status |-> 400,
                                   error |-> "Missing required fields: repo (org/repo), issue_number"])
                    /\ Arrive(r, "upload", key)
             ELSE IF ~form.file
               THEN /\ Respond(r, [status |-> 400, error |-> "Missing file field (multipart 'file')"])
                    /\ Arrive(r, "upload", key)
             ELSE /\ ev' = [ev EXCEPT ![r] =
                              [route |-> "upload", key |-> key, id |-> randomUUID(r),
                               r2Key |-> <<[repo |-> repo, issue_number |-> issueNumber[1],
                                            id |-> randomUUID(r),
                                            filename |-> OrDefault(form.filename, "upload.bin")]>>,
                               file |-> <<[bytes |-> form.bytes, type |-> form.type]>>,
                               contentType |-> OrDefault(form.type, "application/octet-stream")]]
                  /\ Goto(r, "evPut")
    /\ UNCHANGED <<events, statusMap, comments, labels, prHead, nextId, now, cfg, loc, calls,
                   assets, bucket>>

\* (variant) the index row written without the object
EvPutSkipped(r) ==
    /\ r \in Requests
    /\ pc[r] = "evPut"
    /\ Goto(r, "evIndex")
    /\ UNCHANGED <<events, statusMap, comments, labels, prHead, nextId, now, cfg, loc, calls,
                   assets, bucket, ev>>

\* await env.EVIDENCE_BUCKET.put(r2Key, fileBlob.stream(), {httpMetadata: ...})
EvPut(r) ==
    /\ r \in Requests
    /\ pc[r] = "evPut"
    /\ \E ok \in BOOLEAN :
         IF ok
           THEN /\ bucket' = BucketPut(bucket, Object(ev[r].r2Key[1], ev[r].file[1].bytes,
                                                      ev[r].contentType))
                /\ Goto(r, "evIndex")
           ELSE /\ UNCHANGED bucket
                /\ InternalError(r, "R2 put error")
    /\ UNCHANGED <<events, statusMap, comments, labels, prHead, nextId, now, cfg, loc, calls,
                   assets, ev>>

\* INSERT INTO evidence_assets, then the 201
EvIndex(r) ==
    /\ r \in Requests
    /\ pc[r] = "evIndex"
    /\ assets' = assets \cup {[id |-> ev[r].id, repo |-> ev[r].r2Key[1].repo,
                               issue_number |-> ev[r].r2Key[1].issue_number,
                               filename |-> ev[r].r2Key[1].filename,
                               content_type |-> ev[r].contentType,
                               r2_key |-> ev[r].r2Key[1], created_at |-> now]}
    /\ Respond(r, [status |-> 201, id |-> ev[r].id, repo |-> ev[r].r2Key[1].repo,
                   issue_number |-> ev[r].r2Key[1].issue_number,
                   filename |-> ev[r].r2Key[1].filename,
                   content_type |-> ev[r].contentType])
    /\ UNCHANGED <<events, statusMap, comments, labels, prHead, nextId, now, cfg, loc, calls,
                   bucket, ev>>

\* GET /v2/evidence/<id>: the route of fetch, then handleEvidenceGet up to its
\* first await
EvidenceGet(r) ==
    /\ r \in Requests
    /\ pc[r] = "idle"
    /\ \A q \in Requests : q < r => pc[q] # "idle"
    /\ cfg.sequential => InFlight = {}
    /\ \E key \in cfg.keys, id \in EvidenceIds :
         IF Trim(id) = ""
           THEN /\ Respond(r, [status |-> 400, error |-> "Missing evidence id"])
                /\ Arrive(r, "get", key)
         ELSE IF ~key
           THEN /\ Respond(r, [status |-> 401])
                /\ Arrive(r, "get", key)
         ELSE /\ ev' = [ev EXCEPT ![r] = [NoEvidence EXCEPT !.route = "get", !.key = key,
                                                            !.id = Trim(id)]]
              /\ Goto(r, "evSelect")
    /\ UNCHANGED <<events, statusMap, comments, labels, prHead, nextId, now, cfg, loc, calls,
                   assets, bucket>>

\* SELECT r2_key, filename, content_type FROM evidence_assets WHERE id = ?
EvSelect(r) ==
    /\ r \in Requests
    /\ pc[r] = "evSelect"
    /\ IF {x \in assets : x.id = ev[r].id} = {}
         THEN /\ Respond(r, [status |-> 404])
              /\ UNCHANGED ev
         ELSE \E row \in {x \in assets : x.id = ev[r].id} :
                /\ ev' = [ev EXCEPT ![r] = [@ EXCEPT !.r2Key = <<row.r2_key>>,
                                                      !.contentType = row.content_type]]
                /\ Goto(r, "evObject")
    /\ UNCHANGED <<events, statusMap, comments, labels, prHead, nextId, now, cfg, loc, calls,
                   assets, bucket>>

\* await env.EVIDENCE_BUCKET.get(row.r2_key); the content-type header is the
\* row's, or the default, and then the object's own when it has one
EvObject(r) ==
    /\ r \in Requests
    /\ pc[r] = "evObject"
    /\ IF BucketGet(bucket, ev[r].r2Key[1]) = {}
         THEN Respond(r, [status |-> 404])
         ELSE \E obj \in BucketGet(bucket, ev[r].r2Key[1]) :
                Respond(r, [status |-> 200, body |-> obj.body,
                            content_type |-> OrDefault(obj.contentType,
                                              OrDefault(ev[r].contentType,
                                                        "application/octet-stream"))])
    /\ UNCHANGED <<events, statusMap, comments, labels, prHead, nextId, now, cfg, loc, calls,
                   assets, bucket, ev>>

\* an object leaves the bucket by other hands than the relay's
ObjectRemoved ==
    /\ \E obj \in bucket :
         /\ obj.present
         /\ bucket' = BucketPut(bucket, [obj EXCEPT !.present = FALSE])
    /\ UNCHANGED <<events, statusMap, comments, labels, prHead, nextId, now, cfg, loc, calls,
                   assets, ev, pc, resp>>

-----------------------------------------------------------------------------
(* What callers send, and the environment *)

\* scenario 1 of the specification
Scenario1 ==
    [event_id |-> "evt-00000001", repo |-> "acme/web", issue_number |-> JNum(42),
     role |-> "QA", agent |-> "qa-bot", event_type |-> "qa.result_submitted",
     summary |-> Absent, environment |-> Absent,
     build |-> <<[pr |-> JNum(7), commit_sha |-> "abc1234def"]>>,
     overall_verdict |-> "PASS", severity |-> Absent,
     repro_steps |-> Absent, expected |-> Absent, actual |-> Absent]

\* scenario 4: the same event_id with another role
Scenario4 == [Scenario1 EXCEPT !.role = "DEV"]

\* a dev update under another event_id, no build
DevUpdate ==
    [Scenario1 EXCEPT !.event_id = "evt-00000002", !.role = "DEV", !.agent = "dev-bot",
                      !.event_type = "dev.update", !.summary = "built",
                      !.build = <<>>, !.overall_verdict = Absent]

\* scenario 5: FAIL without severity
Scenario5 == [Scenario1 EXCEPT !.event_id = "evt-00000005", !.overall_verdict = "FAIL"]

\* a complete FAIL report
FailReport ==
    [Scenario5 EXCEPT !.severity = "P1", !.repro_steps = "open the page",
                      !.expected = "a list", !.actual = "an error"]

\* scenario 1 as another client spells it: numbers as strings, the SHA in
\* capitals, blanks around the identifying strings
Scenario1Coerced ==
    [Scenario1 EXCEPT !.event_id = " evt-00000001 ", !.repo = " acme/web ",
                      !.issue_number = JStr("42"), !.role = " QA ", !.agent = " qa-bot ",
                      !.event_type = " qa.result_submitted ",
                      !.build = <<[pr |-> JStr("7"), commit_sha |-> "ABC1234DEF"]>>]

\* a body with a top-level field validateEvent does not read
WithUnknownField(e) == e @@ [x_trace |-> "trace-1"]

\* FAIL and BLOCKED reports that break one rule each
InvalidReports ==
    {Scenario5,
     [FailReport EXCEPT !.severity = "P9"],
     [FailReport EXCEPT !.repro_steps = Absent],
     [FailReport EXCEPT !.overall_verdict = "BLOCKED", !.expected = "no"],
     [FailReport EXCEPT !.actual = "  "],
     [FailReport EXCEPT !.issue_number = JStr("forty-two")],
     [FailReport EXCEPT !.event_id = "evt-5"]}

\* scenario 6: LABEL_RULES_JSON
Rules6 ==
    [ok |-> TRUE,
     table |-> [t \in {"qa.result_submitted"} |->
                  [k \in {"PASS", "FAIL"} |->
                     IF k = "PASS"
                       THEN [add |-> {"status:verified"}, remove |-> {"status:qa"}]
                       ELSE [add |-> {"status:rejected"}, remove |-> {"status:qa"}]]]]

\* scenario 6 with a rule for the downgraded verdict
RulesUnverified ==
    [ok |-> TRUE,
     table |-> [t \in {"qa.result_submitted"} |->
                  [k \in {"PASS", "PASS_UNVERIFIED"} |->
                     IF k = "PASS"
                       THEN [add |-> {"status:verified"}, remove |-> {"status:qa"}]
                       ELSE [add |-> {"status:unverified"}, remove |-> {}]]]]

\* scenario 6 with a default rule, and a default rule for dev updates
RulesDefault ==
    [ok |-> TRUE,
     table |-> [t \in {"qa.result_submitted", "dev.update"} |->
                  IF t = "qa.result_submitted"
                    THEN [k \in {"PASS", "_"} |->
                            IF k = "PASS"
                              THEN [add |-> {"status:verified"}, remove |-> {"status:qa"}]
                              ELSE [add |-> {"status:triage"}, remove |-> {}]]
                    ELSE [k \in {"_"} |-> [add |-> {"status:qa"}, remove |-> {}]]]]

\* a rule that adds a label it also removes
RulesOverlap ==
    [ok |-> TRUE,
     table |-> [t \in {"qa.result_submitted"} |->
                  [k \in {"FAIL"} |->
                     [add |-> {"status:rejected", "status:qa"}, remove |-> {"status:qa"}]]]]

\* LABEL_RULES_JSON that does not parse
RulesBroken == [ok |-> FALSE, table |-> <<>>]

Labels6 == {"status:qa", "prio:P1"}

\* a rolling comment an earlier run of the relay left on the issue
MarkerComment(id) == [id |-> id, n |-> 1, body |-> [first |-> RELAY_STATUS_MARKER]]

\* a mapping row an earlier run of the relay left
MappingRow(repo, issueNumber, commentId) ==
    [repo |-> repo, issue_number |-> issueNumber, comment_id |-> commentId, updated_at |-> 0]

\* the state after construction: empty tables, no request received yet
InitWith(slots, config, cs, mapping, head) ==
    /\ events = {}
    /\ statusMap = mapping
    /\ comments = cs
    /\ labels = Labels6
    /\ prHead = head
    /\ nextId = 1000
    /\ now = 0
    /\ cfg = config
    /\ pc = [r \in 1..slots |-> "idle"]
    /\ loc = [r \in 1..slots |-> NoLocals]
    /\ calls = [r \in 1..slots |-> NoCalls]
    /\ resp = [r \in 1..slots |-> NoResp]
    /\ assets = {}
    /\ bucket = {}
    /\ ev = [r \in 1..slots |-> NoEvidence]

Next ==
    \E r \in Slots :
        \/ Receive(r)
        \/ Lookup(r)
        \/ GetToken(r)
        \/ PrFetch(r)
        \/ Insert(r)
        \/ FetchIssue(r)
        \/ LatestDev(r)
        \/ LatestQa(r)
        \/ Recent(r)
        \/ MapSelect(r)
        \/ UpdateMapped(r)
        \/ TouchMap(r)
        \/ Scan(r)
        \/ UpdateFound(r)
        \/ Create(r)
        \/ PutMap(r)
        \/ LabelIssue(r)
        \/ PutLabels(r)

\* handlers of concurrent requests for one event_id, interleaving at every
\* await, on an issue with or without an earlier rolling comment
Init ==
    \E prior \in {<<>>, <<900>>, <<900, 900>>} :
        InitWith(MaxRequests,
                 [rules |-> Rules6, keys |-> {TRUE}, sequential |-> FALSE,
                  payloads |-> {Scenario1, Scenario4}],
                 IF prior = <<>> THEN <<>> ELSE <<MarkerComment(900)>>,
                 IF Len(prior) < 2 THEN {} ELSE {MappingRow("acme/web", 42, 900)},
                 "abc1234def")

Spec == Init /\ [][Next]_vars

\* requests for one event_id handled one after another
InitSeq ==
    \E prior \in {<<>>, <<900>>, <<900, 900>>} :
        InitWith(MaxReplays,
                 [rules |-> Rules6, keys |-> {TRUE}, sequential |-> TRUE,
                  payloads |-> {Scenario1, Scenario4}],
                 IF prior = <<>> THEN <<>> ELSE <<MarkerComment(900)>>,
                 IF Len(prior) < 2 THEN {} ELSE {MappingRow("acme/web", 42, 900)},
                 "abc1234def")

SpecSeq == InitSeq /\ [][Next]_vars

\* one request, over the verdicts and builds a caller can report, the spellings
\* of the PR head and the label rules
ReportedVerdicts == {Absent, "PASS", "FAIL", "BLOCKED", "PASS_UNVERIFIED", "FAIL_UNCONFIRMED"}

ReportedBuilds ==
    {<<>>,
     <<[pr |-> JNone, commit_sha |-> "abc1234def"]>>,
     <<[pr |-> JNum(7), commit_sha |-> "abc1234def"]>>,
     <<[pr |-> JNum(7), commit_sha |-> "Abc1234Def"]>>,
     <<[pr |-> JNum(7), commit_sha |-> "abc1234"]>>}

Reports ==
    {[FailReport EXCEPT !.event_id = "evt-00000001", !.overall_verdict = v, !.build = b] :
        v \in ReportedVerdicts, b \in ReportedBuilds}

InitProv ==
    \E head \in {"abc1234def", "ABC1234DEF", "ffffffffff", Absent},
       rules \in {Rules6, RulesUnverified, RulesDefault, RulesOverlap, RulesBroken},
       prior \in {<<>>, <<900, 900>>} :
        InitWith(1,
                 [rules |-> rules, keys |-> {TRUE}, sequential |-> TRUE,
                  payloads |-> Reports \cup {DevUpdate}],
                 IF prior = <<>> THEN <<>> ELSE <<MarkerComment(900)>>,
                 IF prior = <<>> THEN {} ELSE {MappingRow("acme/web", 42, 900)},
                 head)

SpecProv == InitProv /\ [][Next]_vars

\* upserts one after another, from every state an issue can have been left in:
\* comments of other people before and after the rolling comment, the rolling
\* comment there or not, the mapping row missing, right or stale
OtherComments == {0, 99, 100, 299, 300}

PriorComments ==
    {<<Filler(k)>> : k \in OtherComments \ {0}}
        \cup {<<Filler(k), MarkerComment(900)>> : k \in OtherComments \ {0}}
        \cup {<<>>, <<MarkerComment(900)>>, <<MarkerComment(900), Filler(100)>>}
        \cup {<<Filler(100), MarkerComment(902), Filler(98), MarkerComment(900)>>}

InitUpsert ==
    \E cs \in PriorComments, mapped \in {0, 900, 901} :
        /\ mapped = 900 => MarkerCount(cs) = 1
        /\ InitWith(MaxRequests,
                    [rules |-> Rules6, keys |-> {TRUE}, sequential |-> TRUE,
                     payloads |-> {Scenario1, DevUpdate}],
                    cs,
                    IF mapped = 0 THEN {} ELSE {MappingRow("acme/web", 42, mapped)},
                    "abc1234def")

SpecUpsert == InitUpsert /\ [][Next]_vars

\* the steps of the handler of a request that has been received: each is the
\* return of a call the handler awaits
Handle(r) ==
    \/ Lookup(r) \/ GetToken(r) \/ PrFetch(r) \/ Insert(r) \/ FetchIssue(r)
    \/ LatestDev(r) \/ LatestQa(r) \/ Recent(r) \/ MapSelect(r) \/ UpdateMapped(r)
    \/ TouchMap(r) \/ Scan(r) \/ UpdateFound(r) \/ Create(r) \/ PutMap(r)
    \/ LabelIssue(r) \/ PutLabels(r)

\* the same runs, every call a handler awaits returning in the end
SpecUpsertFair == SpecUpsert /\ WF_vars(\E r \in Slots : Handle(r))

\* requests one after another whose bodies differ in spelling, carry a field
\* the validator does not know, or break a validation rule
InitPayload ==
    InitWith(MaxRequests,
             [rules |-> Rules6, keys |-> {TRUE}, sequential |-> TRUE,
              payloads |-> {Scenario1, Scenario1Coerced, WithUnknownField(DevUpdate),
                            FailReport} \cup InvalidReports],
             <<>>, {}, "abc1234def")

SpecPayload == InitPayload /\ [][Next]_vars

\* the three v2 endpoints under concurrent requests with or without the shared
\* secret, with valid and invalid bodies
NextV2 ==
    \/ Next
    \/ \E r \in Slots :
        \/ EvidenceUpload(r)
        \/ EvPut(r)
        \/ EvIndex(r)
        \/ EvidenceGet(r)
        \/ EvSelect(r)
        \/ EvObject(r)
    \/ ObjectRemoved

InitV2 ==
    \E prior \in {<<>>, <<900, 900>>} :
        InitWith(MaxRequests,
                 [rules |-> Rules6, keys |-> BOOLEAN, sequential |-> FALSE,
                  payloads |-> {Scenario1, Scenario4, Scenario5}],
                 IF prior = <<>> THEN <<>> ELSE <<MarkerComment(900)>>,
                 IF prior = <<>> THEN {} ELSE {MappingRow("acme/web", 42, 900)},
                 "abc1234def")

SpecV2 == InitV2 /\ [][NextV2]_vars

\* requests for two events of one issue, one of them also sent with another
\* payload, beside evidence uploads and reads; handled concurrently, or one
\* at a time
InitRace ==
    \E sequential \in BOOLEAN :
        InitWith(MaxRequests,
                 [rules |-> Rules6, keys |-> {TRUE}, sequential |-> sequential,
                  payloads |-> {Scenario1, Scenario4, DevUpdate}],
                 <<>>, {}, "abc1234def")

SpecRace == InitRace /\ [][NextV2]_vars

-----------------------------------------------------------------------------
(* An issue that already carries several rolling comments *)

\* DELETE .../issues/comments/<id> by a user of the forge: the comment is gone
WithoutComment(cs, id) == SelectSeq(cs, LAMBDA c : c.id # id)

\* between two runs of the relay somebody deletes the comment the mapping row
\* names ("deleted comment" of upsertRollingComment), a duplicate staying behind
CommentDeleted ==
    /\ InFlight = {}
    /\ MarkerCount(comments) >= 2
    /\ \E x \in statusMap :
         /\ x.comment_id \in CommentIds(comments)
         /\ comments' = WithoutComment(comments, x.comment_id)
    /\ UNCHANGED <<assets, bucket, ev, events, statusMap, labels, prHead, nextId, now, cfg, pc, loc, calls, resp>>

\* the duplicates concurrent creates left behind, among the comments of other
\* people: all on the first page, on the third page, or past the pages listed
DupComments ==
    {<<MarkerComment(900), MarkerComment(902)>>,
     <<Filler(200), MarkerComment(902), MarkerComment(900)>>,
     <<Filler(300), MarkerComment(900), MarkerComment(902)>>,
     <<MarkerComment(900), Filler(100), MarkerComment(902), Filler(200), MarkerComment(904)>>}

NextDup == Next \/ CommentDeleted

\* upserts one at a time on an issue with duplicates, the mapping row naming
\* one of them
InitDup ==
    \E cs \in DupComments, mapped \in {900, 902} :
        InitWith(MaxRequests,
                 [rules |-> Rules6, keys |-> {TRUE}, sequential |-> TRUE,
                  payloads |-> {Scenario1, DevUpdate}],
                 cs, {MappingRow("acme/web", 42, mapped)}, "abc1234def")

SpecDup == InitDup /\ [][NextDup]_vars

-----------------------------------------------------------------------------

(* Two label transitions on one issue *)

\* a QA result and a dev update for one issue, each with a label rule of its
\* own, handled concurrently
InitLabels ==
    InitWith(MaxRequests,
             [rules |-> RulesDefault, keys |-> {TRUE}, sequential |-> FALSE,
              payloads |-> {Scenario1, DevUpdate}],
             <<>>, {}, "abc1234def")

SpecLabels == InitLabels /\ [][Next]_vars

-----------------------------------------------------------------------------

(* An event log that already holds rows *)

\* the row INSERT INTO events left for an earlier report whose verdict was kept
StoredRow(payload, at) ==
    LET event == validateEvent(payload).event[1]
    IN  EventRow(event, event.overall_verdict, at,
                 sha256Hex(JsonStringify(event)), JsonStringify(event))

\* earlier events of the issue, of another issue and of another repository
OldQa == [FailReport EXCEPT !.event_id = "evt-00000010", !.agent = "qa-old"]
OldDev(id, summary) == [DevUpdate EXCEPT !.event_id = id, !.summary = summary, !.agent = "dev-old"]
OtherIssue == [DevUpdate EXCEPT !.event_id = "evt-00000043", !.issue_number = JNum(43), !.agent = "other-bot", !.summary = "other issue"]
OtherRepo == [FailReport EXCEPT !.event_id = "evt-00000044", !.repo = "acme/api", !.agent = "other-bot"]

\* logs the relay can have written: empty; rows of the issue beside newer rows
\* of another issue and repository; five rows of the issue
PriorLogs ==
    {{},
     {StoredRow(OldQa, 2), StoredRow(OldDev("evt-00000011", "drafted"), 3),
      StoredRow(OtherIssue, 3), StoredRow(OtherRepo, 3)},
     {StoredRow(OldQa, 1), StoredRow(OldDev("evt-00000011", "drafted"), 2),
      StoredRow(OldDev("evt-00000012", "reworked"), 3), StoredRow(OldDev("evt-00000013", "rebased"), 4),
      StoredRow(OldDev("evt-00000014", "polished"), 5), StoredRow(OtherIssue, 5)}}

\* the clock stands at the newest created_at of the log
InitLog ==
    \E log \in PriorLogs :
        /\ events = log
        /\ statusMap = {}
        /\ comments = <<>>
        /\ labels = Labels6
        /\ prHead = "abc1234def"
        /\ nextId = 1000
        /\ now = IF log = {} THEN 0 ELSE CHOOSE t \in {x.created_at : x \in log} : \A x \in log : x.created_at <= t
        /\ cfg = [rules |-> Rules6, keys |-> {TRUE}, sequential |-> TRUE,
                  payloads |-> {Scenario1, FailReport, DevUpdate}]
        /\ pc = [r \in 1..MaxRequests |-> "idle"]
        /\ loc = [r \in 1..MaxRequests |-> NoLocals]
        /\ calls = [r \in 1..MaxRequests |-> NoCalls]
        /\ resp = [r \in 1..MaxRequests |-> NoResp]
        /\ assets = {}
        /\ bucket = {}
        /\ ev = [r \in 1..MaxRequests |-> NoEvidence]

SpecLog == InitLog /\ [][Next]_vars

-----------------------------------------------------------------------------

(* A PR head that moves between the requests *)

\* somebody pushes to the PR, or the push is taken back: the head the forge
\* reports to getPullRequestHeadSha changes between two requests
HeadMoved ==
    /\ InFlight = {}
    /\ \E head \in {"abc1234def", "ffffffffff"} \ {prHead} : prHead' = head
    /\ UNCHANGED <<assets, bucket, ev, events, statusMap, comments, labels, nextId, now, cfg, pc, loc, calls, resp>>

NextHead == Next \/ HeadMoved

\* a QA report and its re-submissions, one after another
InitHead ==
    \E head \in {"abc1234def", "ffffffffff"}, prior \in {<<>>, <<900, 900>>} :
        InitWith(MaxReplays,
                 [rules |-> RulesUnverified, keys |-> {TRUE}, sequential |-> TRUE,
                  payloads |-> {Scenario1, Scenario4}],
                 IF prior = <<>> THEN <<>> ELSE <<MarkerComment(900)>>,
                 IF prior = <<>> THEN {} ELSE {MappingRow("acme/web", 42, 900)},
                 head)

SpecHead == InitHead /\ [][NextHead]_vars

-----------------------------------------------------------------------------

(* Idempotent ingestion *)

\* requests that passed authentication and validation
Received(r) == r \in Requests /\ loc[r].event # <<>>

\* every request received so far carries the same validated payload
SamePayload ==
    \A r, q \in Requests : Received(r) /\ Received(q) => loc[r].payloadJson = loc[q].payloadJson

RowsOf(eventId) == {x \in events : x.event_id = eventId}

IdempotentReply(r) ==
    /\ Received(r)
    /\ resp[r] = [status |-> 200, ok |-> TRUE, idempotent |-> TRUE, event_id |-> Ev(r).event_id]

\* C1 as stated: whatever became of the first request, every later response
\* of a sequence with one event_id and one payload reports idempotent: true,
\* and one row is there when the sequence is over
C1_EveryLaterResponseIdempotent ==
    SamePayload =>
        /\ \A r \in Requests : r > 1 /\ pc[r] = "done" => IdempotentReply(r)
        /\ (\A r \in Requests : pc[r] = "done") => Cardinality(RowsOf("evt-00000001")) = 1

\* C1, amended: in a sequence of requests with one event_id and one validated
\* payload, handled one after another, there is never more than one row for the
\* event_id; from the request that inserts it on there is exactly one, and
\* every response after that request's reports idempotent: true
C1_ReplayAfterInsert ==
    SamePayload =>
        /\ Cardinality(RowsOf("evt-00000001")) <= 1
        /\ (\E q \in Requests : loc[q].insert = Stored) =>
               Cardinality(RowsOf("evt-00000001")) = 1
        /\ \A r \in Requests :
               pc[r] = "done" /\ (\E q \in Requests : q < r /\ loc[q].insert = Stored)
                   => IdempotentReply(r)

\* the first request stored the event, two replays were answered
C1_Witness ==
    /\ SamePayload
    /\ loc[1].insert = Stored
    /\ \E r, q \in Requests : r # q /\ r > 1 /\ q > 1 /\ IdempotentReply(r) /\ IdempotentReply(q)

\* the step in which request r learns that its event_id is stored with hash h
FindsRow(r, sameHash) ==
    /\ r \in Requests
    /\ pc[r] = "lookup"
    /\ pc'[r] # "lookup"
    /\ \E x \in RowsOf(Ev(r).event_id) : (x.payload_hash = loc[r].payloadHash) = sameHash

NoSideEffects(r) ==
    /\ calls'[r] = NoCalls
    /\ UNCHANGED <<events, statusMap, comments, labels, nextId>>

\* C2: a request that finds a row for its event_id with an equal payload hash
\* answers 200 {ok, idempotent, event_id}, has minted no token and made no
\* forge call, and leaves the tables and the forge as they were
C2_ReplayHasNoSideEffects ==
    [][\A r \in Slots : FindsRow(r, TRUE) =>
          /\ resp'[r] = [status |-> 200, ok |-> TRUE, idempotent |-> TRUE,
                         event_id |-> Ev(r).event_id]
          /\ NoSideEffects(r)]_vars

\* a replay was answered after another request had gone through the pipeline
C2_Witness ==
    \E r, q \in Requests :
        /\ resp[q].status = 201 /\ calls[q].labels = 1
        /\ Received(r) /\ IdempotentReply(r) /\ calls[r] = NoCalls

\* C3: a request that finds a row for its event_id with another payload hash
\* answers 409 with the stored hash and its own, inserts nothing, makes no
\* forge call and leaves the tables and the forge as they were
C3_ConflictHasNoSideEffects ==
    [][\A r \in Slots : FindsRow(r, FALSE) =>
          /\ resp'[r].status = 409
          /\ \E x \in RowsOf(Ev(r).event_id) : resp'[r].existing_hash = x.payload_hash
          /\ resp'[r].new_hash = loc[r].payloadHash
          /\ resp'[r].new_hash # resp'[r].existing_hash
          /\ loc'[r].insert = NotRun
          /\ NoSideEffects(r)]_vars

\* a conflict was answered after the first insert
C3_Witness ==
    \E r, q \in Requests :
        /\ loc[q].insert = Stored
        /\ Received(r) /\ resp[r].status = 409 /\ calls[r] = NoCalls
        /\ events = {x \in events : x.payload_json = loc[q].payloadJson[1]}

\* C4: a request that passed the idempotency check and then lost the INSERT to
\* a concurrent request for the same event_id is answered as a replay (200) or
\* as a conflict (409)
C4_LoserAnswersReplayOrConflict ==
    \A r \in Requests : loc[r].insert = Duplicate /\ pc[r] = "done" =>
        resp[r].status \in {200, 409}

\* C5: the events table never holds two rows with one event_id, and no two
\* requests have inserted the same event_id
C5_OneRowPerEventId ==
    /\ \A x, y \in events : x.event_id = y.event_id => x = y
    /\ \A r, q \in Requests :
          (/\ loc[r].insert = Stored /\ loc[q].insert = Stored
           /\ Ev(r).event_id = Ev(q).event_id) => r = q

\* two handlers passed the idempotency check, one INSERT went through and the
\* other was refused
C5_Witness ==
    \E r, q \in Requests : loc[r].insert = Stored /\ loc[q].insert = Duplicate

\* rolling-comment create or update, label replace
Mutates(r) == calls[r].update + calls[r].create + calls[r].labels > 0

\* C6: of the requests that carry one event_id, at most one issues forge
\* mutations
C6_OneMutatorPerEvent ==
    \A r, q \in Requests :
        (/\ Received(r) /\ Received(q) /\ r # q
         /\ Ev(r).event_id = Ev(q).event_id
         /\ Mutates(r)) => ~Mutates(q)

\* one request wrote the comment and the labels; the other raced it or replayed
C6_Witness ==
    \E r, q \in Requests :
        /\ r # q /\ Received(q) /\ pc[q] = "done"
        /\ calls[r].labels = 1 /\ calls[r].create + calls[r].update >= 1
        /\ loc[q].insert = Duplicate

-----------------------------------------------------------------------------
(* Provenance and the effective verdict *)

\* the row request r inserted
RowOf(r) == CHOOSE x \in events : x.event_id = Ev(r).event_id

\* what the caller sent
Reported(r) == loc[r].payload[1]

\* the downgrade rule as the specification words it
ClaimedVerdict(reported, verified) ==
    IF verified = VFalse /\ reported = "PASS" THEN "PASS_UNVERIFIED" ELSE reported

\* C7 as stated: the effective verdict is PASS_UNVERIFIED if and only if
\* verified is false and the reported verdict is PASS
C7_UnverifiedIffDowngraded ==
    \A r \in Requests : loc[r].insert = Stored =>
        (RowOf(r).overall_verdict = "PASS_UNVERIFIED"
            <=> (loc[r].provenanceVerified = VFalse /\ Reported(r).overall_verdict = "PASS"))

\* C7, amended: the effective verdict is PASS_UNVERIFIED when verified is
\* false and the reported verdict is PASS, and the reported verdict in every
\* other case; the stored overall_verdict and the verdict of the 201 response
\* are this effective verdict
C7_EffectiveVerdict ==
    \A r \in Requests : loc[r].insert = Stored =>
        LET v == ClaimedVerdict(Reported(r).overall_verdict, loc[r].provenanceVerified)
        IN  /\ RowOf(r).overall_verdict = v
            /\ resp[r].status = 201 => resp[r].verdict = v

\* a PASS whose SHA is not the PR head was stored and answered as PASS_UNVERIFIED
C7_Witness ==
    \E r \in Requests :
        /\ loc[r].insert = Stored /\ resp[r].status = 201
        /\ Reported(r).overall_verdict = "PASS"
        /\ loc[r].provenanceVerified = VFalse
        /\ RowOf(r).overall_verdict = "PASS_UNVERIFIED"

\* the payload names a pull request and a commit
ReportsPrAndSha(r) ==
    /\ Reported(r).build # <<>>
    /\ Reported(r).build[1].pr \notin {JNone, JNum(0), JStr(""), JStr("0")}
    /\ Reported(r).build[1].commit_sha \notin {Absent, ""}

\* two spellings of one SHA, letter case apart
SameShaIgnoringCase(a, b) ==
    /\ b # Absent
    /\ \/ a = b
       \/ {a, b} \subseteq {"abc1234def", "ABC1234DEF", "Abc1234Def"}
       \/ {a, b} \subseteq {"ffffffffff", "FFFFFFFFFF"}

\* request r is past the provenance step of its pipeline
PastProvenance(r) ==
    /\ Received(r)
    /\ calls[r].token = 1
    /\ pc[r] \notin {"token", "prFetch"}
    /\ ~(/\ pc[r] = "done" /\ resp[r].status = 500
         /\ resp[r].details \in {"GitHub installation token error", "GitHub PR fetch error"})

\* C8: without build.pr or build.commit_sha verified is null and no PR is
\* fetched; with both, one PR fetch is made and verified is true exactly when
\* the reported SHA is the PR head SHA, letter case apart; the response's
\* provenance_verified is that value
C8_ProvenanceTriState ==
    \A r \in Requests : Received(r) =>
        /\ calls[r].pr <= 1
        /\ PastProvenance(r) =>
             IF ReportsPrAndSha(r)
               THEN /\ calls[r].pr = 1
                    /\ loc[r].provenanceVerified =
                          IF SameShaIgnoringCase(Reported(r).build[1].commit_sha, prHead)
                            THEN VTrue ELSE VFalse
               ELSE /\ calls[r].pr = 0
                    /\ loc[r].provenanceVerified = VNull
        /\ resp[r].status = 201 => resp[r].provenance_verified = loc[r].provenanceVerified

\* a SHA reported in mixed case was verified against a head spelled in capitals
C8_Witness ==
    \E r \in Requests :
        /\ resp[r].status = 201 /\ resp[r].provenance_verified = VTrue
        /\ Reported(r).build[1].commit_sha = "Abc1234Def"
        /\ prHead = "ABC1234DEF"

\* request r is past the rule lookup of applyLabelRules
PastRuleLookup(r) ==
    /\ Received(r)
    /\ loc[r].commentId # 0
    /\ pc[r] \in {"labelIssue", "putLabels", "done"}

KeysOf(eventType) ==
    IF cfg.rules.ok /\ eventType \in DOMAIN cfg.rules.table
      THEN DOMAIN cfg.rules.table[eventType] ELSE {}

\* C9: for an event reported as PASS whose provenance check returned false the
\* rule under "PASS" is not the one applied: it is the rule under
\* "PASS_UNVERIFIED", failing that the one under "_", and with neither the
\* labels are left as they were
C9_RuleByEffectiveVerdict ==
    \A r \in Requests :
        (/\ PastRuleLookup(r)
         /\ Reported(r).overall_verdict = "PASS"
         /\ loc[r].provenanceVerified = VFalse) =>
            LET keys == KeysOf(Ev(r).event_type)
                key == IF "PASS_UNVERIFIED" \in keys THEN "PASS_UNVERIFIED"
                       ELSE IF "_" \in keys THEN "_" ELSE NoRule
            IN  /\ loc[r].ruleKey = key
                /\ key # "PASS"
                /\ key = NoRule => calls[r].labels = 0 /\ labels = Labels6
                /\ resp[r].status = 201 /\ key # NoRule =>
                      labels = NextLabels(Labels6, cfg.rules.table[Ev(r).event_type][key])

\* a downgraded PASS went through rules that have a "PASS" entry: its labels
\* were written by the "PASS_UNVERIFIED" rule
C9_Witness ==
    \E r \in Requests :
        /\ resp[r].status = 201
        /\ Reported(r).overall_verdict = "PASS" /\ loc[r].provenanceVerified = VFalse
        /\ "PASS" \in KeysOf(Ev(r).event_type)
        /\ loc[r].ruleKey = "PASS_UNVERIFIED"
        /\ labels = Labels6 \cup {"status:unverified"}

-----------------------------------------------------------------------------
(* One rolling comment per issue *)

\* the step in which upsertRollingComment returns to request r
UpsertReturns(r) ==
    /\ r \in Requests
    /\ pc[r] \in {"touchMapping", "putMapping"}
    /\ pc'[r] \notin {"touchMapping", "putMapping"}

\* the states C10 lets an upsert start from: at most one marker comment, within
\* the pages the scan lists, and a mapping row that is missing or points at the
\* marker comment or at a comment that is gone
AdmittedStart(r) ==
    /\ loc[r].upsertFrom[1].markers <= 1
    /\ loc[r].upsertFrom[1].reachable
    /\ loc[r].upsertFrom[1].mapping \in {"absent", "marker", "deleted"}

\* C10: with upserts run one at a time, an upsert that started from an admitted
\* state and returns leaves exactly one comment with the marker on the issue
C10_OneMarkerComment ==
    [][\A r \in Slots : cfg.sequential /\ UpsertReturns(r) /\ AdmittedStart(r) =>
          MarkerCount(comments') = 1]_vars

\* an upsert whose mapping row pointed at a deleted comment found the marker
\* comment on the second page and updated it
C10_Witness ==
    \E r \in Requests :
        /\ resp[r].status = 201
        /\ AdmittedStart(r)
        /\ loc[r].upsertFrom[1].mapping = "deleted"
        /\ loc[r].upsertFrom[1].markers = 1
        /\ calls[r].list = 2 /\ calls[r].update = 2 /\ calls[r].create = 0
        /\ MarkerCount(comments) = 1

-----------------------------------------------------------------------------
(* The insert as commit point, and failures on either side of it *)

\* request r issues a comment update, a comment create or a label replace in this step
IssuesMutation(r) ==
    calls'[r].update + calls'[r].create + calls'[r].labels
        > calls[r].update + calls[r].create + calls[r].labels

\* C11: in every pipeline the installation token is minted and the PR head
\* fetched before the event row is inserted, and a comment update, comment
\* create or label replace is issued only after it, when the event's row is in
\* the store
C11_InsertIsCommitPoint ==
    [][\A r \in Slots : r \in Requests =>
          /\ (calls'[r].token > calls[r].token \/ calls'[r].pr > calls[r].pr) =>
                loc[r].insert = NotRun
          /\ loc'[r].insert # loc[r].insert =>
                /\ calls[r].token = 1
                /\ HasPrAndSha(Ev(r)) => calls[r].pr = 1
                /\ ~Mutates(r)
          /\ IssuesMutation(r) =>
                /\ loc[r].insert = Stored
                /\ \E x \in events : /\ x.event_id = Ev(r).event_id
                                     /\ x.payload_hash = loc[r].payloadHash]_vars

\* a pipeline minted its token, fetched the PR head, stored its row, wrote the
\* comment and replaced the labels
C11_Witness ==
    \E r \in Requests :
        /\ Received(r) /\ loc[r].insert = Stored
        /\ calls[r].token = 1 /\ calls[r].pr = 1
        /\ calls[r].create = 1 /\ calls[r].labels = 1
        /\ RowsOf(Ev(r).event_id) # {}

\* request r ended with the 500 of a failure before its INSERT
FailedBeforeInsert(r) ==
    /\ Received(r) /\ pc[r] = "done"
    /\ resp[r].status = 500 /\ loc[r].insert = NotRun

\* C12: a pipeline that fails at the token mint or at the PR head fetch answers
\* an error, leaves no row for its event_id, has issued no forge mutation and
\* leaves the mapping as it was; the same payload sent again next passes the
\* idempotency check and is processed as a new event
C12_FailureBeforeInsert ==
    [][\A r \in Slots :
          /\ (r \in Requests /\ pc[r] \in {"token", "prFetch"} /\ pc'[r] = "done") =>
                /\ resp'[r].status = 500 /\ resp'[r].error = "Internal error"
                /\ {x \in events' : x.event_id = Ev(r).event_id} = {}
                /\ calls'[r].update + calls'[r].create + calls'[r].labels = 0
                /\ UNCHANGED <<events, statusMap, comments, labels>>
          /\ (/\ r \in Requests /\ r > 1
              /\ pc[r] = "lookup" /\ pc'[r] # "lookup"
              /\ FailedBeforeInsert(r - 1)
              /\ loc[r].payloadJson = loc[r - 1].payloadJson) => pc'[r] = "token"]_vars

\* a PR head fetch failed, and the same payload sent again was stored and
\* answered 201
C12_Witness ==
    \E r \in Requests :
        /\ FailedBeforeInsert(r) /\ calls[r].pr = 1
        /\ r + 1 \in Requests /\ Received(r + 1)
        /\ loc[r + 1].payloadJson = loc[r].payloadJson
        /\ resp[r + 1].status = 201 /\ loc[r + 1].insert = Stored

\* request r ends with a failure after its INSERT in this step
FailsAfterInsert(r) ==
    /\ r \in Requests
    /\ loc[r].insert = Stored
    /\ pc[r] # "done" /\ pc'[r] = "done" /\ resp'[r].status = 500

\* C13: a pipeline that fails after its row was inserted leaves the row and
\* the forge as they are: no row is ever changed or removed, the failing step
\* undoes no comment, label or mapping; and a later request with the same
\* event_id and payload is answered 200 idempotent
C13_RowSurvivesFailure ==
    [][/\ events \subseteq events'
       /\ \A r \in Slots :
            /\ FailsAfterInsert(r) => UNCHANGED <<comments, labels, statusMap>>
            /\ (/\ r \in Requests /\ pc[r] = "lookup" /\ pc'[r] # "lookup"
                /\ \E q \in Requests :
                      /\ loc[q].insert = Stored /\ pc[q] = "done" /\ resp[q].status = 500
                      /\ loc[q].payloadJson = loc[r].payloadJson) =>
                  resp'[r] = [status |-> 200, ok |-> TRUE, idempotent |-> TRUE,
                              event_id |-> Ev(r).event_id]]_vars

\* a pipeline created the comment and failed at the label step; its row is
\* stored and the retry was answered as a replay
C13_Witness ==
    \E r, q \in Requests :
        /\ loc[q].insert = Stored /\ resp[q].status = 500
        /\ calls[q].create = 1 /\ calls[q].labels = 1
        /\ MarkerCount(comments) = 1
        /\ RowsOf(Ev(q).event_id) # {}
        /\ IdempotentReply(r) /\ loc[r].payloadJson = loc[q].payloadJson

\* request q failed in its comment upsert or in its label step
FailedInDerivedState(q) ==
    /\ Received(q) /\ loc[q].insert = Stored
    /\ pc[q] = "done" /\ resp[q].status = 500
    /\ loc[q].upsertFrom # <<>>

\* the comment and the labels show the event of request q
DerivedStateOf(q) ==
    LET key == RuleKey(cfg.rules, Ev(q).event_type, loc[q].effectiveVerdict)
    IN  /\ \E i \in 1..Len(comments) : comments[i].body = loc[q].body
        /\ key # NoRule =>
              labels = NextLabels(Labels6, cfg.rules.table[Ev(q).event_type][key])

\* C14: after a pipeline failed in the comment upsert or in the label step, a
\* completed retry with the same event_id and the same payload leaves the
\* rolling comment showing the event and the event's label rule applied
C14_RetryConverges ==
    \A q, r \in Requests :
        (/\ q < r /\ FailedInDerivedState(q)
         /\ Received(r) /\ pc[r] = "done"
         /\ loc[r].payloadJson = loc[q].payloadJson) => DerivedStateOf(q)

\* the body of the comment the forge holds under id
CommentBody(id) == comments[CHOOSE i \in 1..Len(comments) : comments[i].id = id].body

\* C15: after event E1 was inserted and its pipeline failed, the next event on
\* the issue whose pipeline completes, with no handler running beside it,
\* writes a comment that lists E1 under Recent Activity and shows E1 as Latest
\* QA Result or Latest Dev Update, E1 being the newest event of its type
C15_NextEventRendersFailed ==
    \A q, r \in Requests :
        (/\ q < r /\ Received(q) /\ Received(r)
         /\ loc[q].insert = Stored /\ resp[q].status = 500
         /\ resp[r].status = 201
         /\ Ev(r).event_id # Ev(q).event_id) =>
            LET body == CommentBody(resp[r].rolling_comment_id)
            IN  /\ \E i \in 1..Len(body.recent) : body.recent[i] = RecentLine(RowOf(q))
                /\ Ev(q).event_type = "qa.result_submitted" =>
                      body.qaVerdict = Ev(q).overall_verdict
                /\ Ev(q).event_type = "dev.update" => body.devSummary = Ev(q).summary

\* the QA result was stored and its comment create failed; the dev update
\* that followed wrote a comment showing it
C15_Witness ==
    \E q, r \in Requests :
        /\ q < r /\ Received(q) /\ Received(r)
        /\ loc[q].insert = Stored /\ resp[q].status = 500 /\ calls[q].create = 1
        /\ Ev(q).event_type = "qa.result_submitted"
        /\ resp[r].status = 201 /\ Ev(r).event_type = "dev.update"
        /\ CommentBody(resp[r].rolling_comment_id).qaVerdict = "PASS"

-----------------------------------------------------------------------------
(* Labels *)

\* request r's label replace is answered by the forge in this step
LabelsReplaced(r) ==
    /\ r \in Requests
    /\ pc[r] = "putLabels" /\ resp'[r].status = 201

\* C16: the label set sent to the forge is (current \cup add) \ remove, current
\* being the labels read in that pipeline: a label is sent exactly when it is
\* in current or in add, and not in remove; the rules of scenario 6 turn
\* {status:qa, prio:P1} under PASS into {status:verified, prio:P1}
C16_NextLabelSet ==
    [][\A r \in Slots : LabelsReplaced(r) =>
          LET rule == cfg.rules.table[Ev(r).event_type][loc[r].ruleKey]
              current == loc[r].current
          IN  /\ current = labels
              /\ \A l \in current \cup rule.add \cup rule.remove \cup labels' :
                    l \in labels' <=> /\ l \in current \/ l \in rule.add
                                      /\ l \notin rule.remove
              /\ (cfg.rules = Rules6 /\ current = Labels6 /\ loc[r].ruleKey = "PASS") =>
                    labels' = {"status:verified", "prio:P1"}]_vars

\* a rule that adds status:qa and removes it was applied: status:qa is gone,
\* prio:P1 was kept
C16_Witness ==
    \E r \in Requests :
        /\ resp[r].status = 201 /\ calls[r].labels = 1
        /\ cfg.rules = RulesOverlap
        /\ labels = {"status:rejected", "prio:P1"}

\* C17: a request issues the label replace at most once, as one replacement
\* that takes the label set from current to next in a single step, and not at
\* all when it is answered 400, 401, 200 or 409 or fails before the label step
C17_OneLabelReplace ==
    [][/\ \A r \in Slots : r \in Requests =>
            /\ calls'[r].labels <= 1
            /\ resp'[r].status \in {400, 401, 200, 409} => calls'[r].labels = 0
            /\ (resp'[r].status = 500 /\ resp'[r].details # "GitHub update labels error") =>
                  calls'[r].labels = 0
            /\ calls'[r].labels # calls[r].labels => pc[r] = "putLabels"
       /\ labels' # labels =>
            \E r \in Requests :
                /\ calls'[r].labels = calls[r].labels + 1
                /\ labels = loc[r].current
                /\ labels' = NextLabels(loc[r].current,
                                        cfg.rules.table[Ev(r).event_type][loc[r].ruleKey])]_vars

\* one request replaced the labels once; another was turned away at the door
C17_Witness ==
    \E r, q \in Requests :
        /\ resp[r].status = 201 /\ calls[r].labels = 1
        /\ labels = {"status:verified", "prio:P1"}
        /\ ev[q].route = "events" /\ resp[q].status \in {400, 401} /\ calls[q].labels = 0

\* C18: for an event of type T with effective verdict V the rule applied is
\* rules[T][V], failing that rules[T]["_"], failing that none, an absent verdict
\* selecting rules[T]["_"] only; with no rule selected (T not in the rules, no
\* key that matches, rules that do not parse) the label step makes no forge
\* call and the request is answered 201
C18_RuleSelection ==
    \A r \in Requests : PastRuleLookup(r) =>
        LET keys == KeysOf(Ev(r).event_type)
            v == loc[r].effectiveVerdict
            key == IF v # Absent /\ v \in keys THEN v
                   ELSE IF "_" \in keys THEN "_" ELSE NoRule
        IN  /\ loc[r].ruleKey = key
            /\ key = NoRule =>
                  /\ pc[r] = "done" /\ resp[r].status = 201
                  /\ calls[r].labels = 0 /\ calls[r].issue = 1
                  /\ labels = Labels6
            /\ (key # NoRule /\ resp[r].status = 201) =>
                  /\ calls[r].labels = 1 /\ calls[r].issue = 2
                  /\ labels = NextLabels(Labels6, cfg.rules.table[Ev(r).event_type][key])

\* an event without a verdict got the default rule of its type
C18_Witness ==
    \E r \in Requests :
        /\ resp[r].status = 201
        /\ loc[r].effectiveVerdict = Absent /\ loc[r].ruleKey = "_"
        /\ "PASS" \in KeysOf(Ev(r).event_type)
        /\ labels = Labels6 \cup {"status:triage"}

-----------------------------------------------------------------------------
(* Status codes and authentication *)

\* C19 as stated: a request to POST /v2/events is answered 201 if and only if
\* it inserted an event row
C19_CreatedIffInserted ==
    \A r \in Requests : (ev[r].route = "events" /\ pc[r] = "done") =>
        (resp[r].status = 201 <=> loc[r].insert = Stored)

\* C19, amended: a request to POST /v2/events answered 201 has inserted an
\* event row; a request that inserted one is answered 201 when its pipeline
\* completes and 500 when a later step fails; a request answered 200, 400, 401
\* or 409 has inserted none
C19_CreatedOnlyIfInserted ==
    \A r \in Requests : (ev[r].route = "events" /\ pc[r] = "done") =>
        /\ resp[r].status = 201 => loc[r].insert = Stored
        /\ loc[r].insert = Stored => resp[r].status \in {201, 500}
        /\ resp[r].status \in {200, 400, 401, 409} => loc[r].insert = NotRun

\* of two requests racing for one event_id one inserted and was answered 201,
\* the other lost the INSERT and was not
C19_Witness ==
    \E r, q \in Requests :
        /\ ev[r].route = "events" /\ resp[r].status = 201 /\ loc[r].insert = Stored
        /\ ev[q].route = "events" /\ pc[q] = "done" /\ loc[q].insert = Duplicate
        /\ resp[q].status # 201

\* C20: a request to a v2 endpoint whose X-Relay-Key is not the shared secret
\* is answered 401, has read and written nothing and has called nobody
C20_UnauthorizedIs401 ==
    \A r \in Requests : (ev[r].route # "" /\ ~ev[r].key) =>
        /\ pc[r] = "done" /\ resp[r].status = 401
        /\ calls[r] = NoCalls /\ loc[r] = NoLocals
        /\ ev[r].id = "" /\ ev[r].r2Key = <<>>

-----------------------------------------------------------------------------
(* Validation errors *)

\* a FAIL or BLOCKED report without a severity of P0..P3 or without three
\* characters of repro_steps, expected or actual
FailRuleBroken(sent) ==
    /\ sent.overall_verdict \in {"FAIL", "BLOCKED"}
    /\ \/ sent.severity \notin {"P0", "P1", "P2", "P3"}
       \/ \E k \in {"repro_steps", "expected", "actual"} : sent[k] = Absent \/ Len(sent[k]) < 3

\* a body that breaks a rule on event_id or issue_number
IdRuleBroken(sent) ==
    \/ sent.event_id = Absent \/ Len(sent.event_id) < 8
    \/ sent.issue_number \notin {JNum(42), JStr("42")}

\* C21: an authenticated POST /v2/events whose payload breaks a validation
\* rule, a FAIL or BLOCKED report without severity or repro fields among them,
\* is answered 400 with one message in the step that receives it; that step
\* and every later one leave the request without a row inserted, a token
\* minted or a forge call made, and the step changes no table and no comment
C21_InvalidPayloadIs400 ==
    [][\A r \in Requests :
        /\ (pc[r] = "idle" /\ ev'[r].route = "events" /\ ev'[r].key
               /\ (FailRuleBroken(loc'[r].payload[1]) \/ IdRuleBroken(loc'[r].payload[1]))) =>
             /\ pc'[r] = "done" /\ resp'[r].status = 400
             /\ DOMAIN resp'[r] = {"status", "error"}
             /\ resp'[r].error \in STRING
             /\ (~IdRuleBroken(loc'[r].payload[1])
                   /\ loc'[r].payload[1].severity \notin {"P0", "P1", "P2", "P3"}) =>
                  resp'[r].error = "severity is required for FAIL/BLOCKED and must be P0|P1|P2|P3"
             /\ calls'[r] = NoCalls /\ loc'[r].insert = NotRun
             /\ UNCHANGED <<events, statusMap, comments, labels, nextId>>
        /\ (pc[r] = "done" /\ resp[r].status = 400) =>
             UNCHANGED <<pc[r], resp[r], calls[r], loc[r]>>]_vars

\* a FAIL report with a severity and no repro_steps was answered 400 after
\* another request had stored its event
C21_Witness ==
    \E r \in Requests :
        /\ ev[r].route = "events" /\ pc[r] = "done" /\ resp[r].status = 400
        /\ loc[r].payload[1].overall_verdict = "FAIL"
        /\ loc[r].payload[1].severity = "P1"
        /\ loc[r].payload[1].repro_steps = Absent
        /\ events # {}

-----------------------------------------------------------------------------
(* One logical event, one hash *)

\* the number a caller meant, given as a number or as its decimal text
NumberMeant(x) ==
    IF x \in {JNum(42), JStr("42")} THEN 42
    ELSE IF x \in {JNum(7), JStr("7")} THEN 7
    ELSE 0

\* the text between the blanks around it
Unpadded(x) ==
    IF x \in {"evt-00000001", " evt-00000001 "} THEN "evt-00000001"
    ELSE IF x \in {"acme/web", " acme/web "} THEN "acme/web"
    ELSE IF x \in {"QA", " QA "} THEN "QA"
    ELSE IF x \in {"qa-bot", " qa-bot "} THEN "qa-bot"
    ELSE IF x \in {"qa.result_submitted", " qa.result_submitted "} THEN "qa.result_submitted"
    ELSE x

\* two bodies that differ at most by the permitted coercions
SameLogicalEvent(a, b) ==
    /\ DOMAIN a = DOMAIN b
    /\ \A k \in {"event_id", "repo", "role", "agent", "event_type"} : Unpadded(a[k]) = Unpadded(b[k])
    /\ NumberMeant(a.issue_number) = NumberMeant(b.issue_number)
    /\ (a.build = <<>>) = (b.build = <<>>)
    /\ a.build # <<>> => /\ NumberMeant(a.build[1].pr) = NumberMeant(b.build[1].pr)
                         /\ SameShaIgnoringCase(a.build[1].commit_sha, b.build[1].commit_sha)
    /\ \A k \in DOMAIN a \ {"event_id", "repo", "role", "agent", "event_type",
                              "issue_number", "build"} : a[k] = b[k]

\* C24: two submissions of one event_id that differ only by the permitted
\* coercions have the same payload hash, and the later one, arriving after the
\* earlier one's row was stored, is answered 200 as a replay and never 409
C24_CoercionsHashAlike ==
    \A r, q \in Requests :
        (Received(r) /\ Received(q) /\ SameLogicalEvent(Reported(r), Reported(q))) =>
            /\ loc[r].payloadHash = loc[q].payloadHash
            /\ (q < r /\ loc[q].insert = Stored /\ pc[r] = "done") =>
                 /\ resp[r].status = 200
                 /\ resp[r].idempotent = TRUE
                 /\ calls[r] = NoCalls

\* scenario 1 was stored, then sent again with numbers as strings, the SHA in
\* capitals and blanks around its strings, and answered 200
C24_Witness ==
    \E r, q \in Requests :
        /\ q < r /\ Received(q) /\ Received(r)
        /\ Reported(q) = Scenario1 /\ loc[q].insert = Stored
        /\ Reported(r).issue_number = JStr("42") /\ Reported(r).build[1].pr = JStr("7")
        /\ Reported(r).build[1].commit_sha = "ABC1234DEF"
        /\ Reported(r).event_id = " evt-00000001 "
        /\ pc[r] = "done" /\ resp[r].status = 200

-----------------------------------------------------------------------------
(* Fields the validator does not know *)

\* the top-level fields validateEvent reads
KnownFields ==
    {"event_id", "repo", "issue_number", "role", "agent", "event_type", "summary",
     "environment", "build", "overall_verdict", "scope_results", "severity",
     "repro_steps", "expected", "actual", "evidence_urls", "artifacts", "details"}

\* C25: a top-level field of the body that the validator does not know does
\* not stop the request, and the payload_json of the row the request inserted
\* holds the field with the value sent
C25_UnknownFieldsPreserved ==
    \A r \in Requests :
        (Received(r) /\ loc[r].insert = Stored) =>
            \A k \in DOMAIN Reported(r) \ KnownFields :
                /\ k \in DOMAIN RowOf(r).payload_json
                /\ RowOf(r).payload_json[k] = Reported(r)[k]

-----------------------------------------------------------------------------
(* The rolling comment and the labels of the issue *)

\* C22: when a POST /v2/events pipeline has completed with 201 and no other
\* request ran on the issue, the label list in the Current State section of
\* the rolling comment, from which the status shown is picked, is the label
\* set the issue has at the forge, this pipeline's label transition included
C22_CommentShowsCurrentLabels ==
    \A r \in Requests :
        (ev[r].route = "events" /\ pc[r] = "done" /\ resp[r].status = 201
           /\ \A q \in Requests \ {r} : pc[q] = "idle") =>
            CommentBody(resp[r].rolling_comment_id).labels = labels

-----------------------------------------------------------------------------
(* Evidence: upload, then retrieval *)

\* the index rows for an id, and the objects the bucket holds under a key
IndexRows(id) == {x \in assets : x.id = id}

Held(key) == {o \in bucket : o.key = key /\ o.present}

\* the upload that was given an id
UploadOf(id) == {u \in Requests : ev[u].route = "upload" /\ ev[u].id = id}

\* C26: an authenticated GET /v2/evidence/<id> is answered 404 exactly when
\* the index has no row for id or the bucket holds no object under the row's
\* key, and 200 otherwise; the 200 for an id an upload returned carries the
\* bytes and the content type of that upload; and an upload writes the object
\* before the index row, so every row names a key that was written
C26_EvidenceRoundTrip ==
    [][/\ \A r \in Requests :
            (ev[r].route = "get" /\ pc[r] \in {"evSelect", "evObject"} /\ pc'[r] = "done") =>
                /\ resp'[r].status \in {200, 404}
                /\ resp'[r].status = 404 <=>
                      \/ IndexRows(ev[r].id) = {}
                      \/ \A x \in IndexRows(ev[r].id) : Held(x.r2_key) = {}
                /\ resp'[r].status = 200 =>
                      /\ UploadOf(ev[r].id) # {}
                      /\ \A u \in UploadOf(ev[r].id) :
                            /\ resp[u].status = 201
                            /\ resp'[r].body = ev[u].file[1].bytes
                            /\ resp'[r].content_type = resp[u].content_type
                            /\ ev[u].file[1].type # "" =>
                                  resp'[r].content_type = ev[u].file[1].type
       /\ \A x \in assets' : \E o \in bucket' : o.key = x.r2_key
       /\ \A u \in Requests :
            (pc[u] = "evIndex" /\ pc'[u] = "done") =>
                /\ IndexRows(ev[u].id) = {}
                /\ \E o \in bucket : o.key = ev[u].r2Key[1] /\ o.body = ev[u].file[1].bytes
                /\ resp'[u].status = 201 /\ resp'[u].id = ev[u].id
                /\ Cardinality({x \in assets' : x.id = ev[u].id}) = 1]_vars

\* a file uploaded without a type was read back under the id the upload
\* returned: the same bytes, as application/octet-stream
C26_Witness ==
    \E u, r \in Requests :
        /\ ev[u].route = "upload" /\ resp[u].status = 201
        /\ ev[u].file[1].type = "" /\ ev[u].file[1].bytes = "log bytes"
        /\ ev[r].route = "get" /\ ev[r].id = resp[u].id
        /\ pc[r] = "done" /\ resp[r].status = 200
        /\ resp[r].body = "log bytes" /\ resp[r].content_type = "application/octet-stream"

-----------------------------------------------------------------------------
(* The event store is append-only *)

\* C23: no step of any request, whether a replay, a conflict, another
\* event, a failing pipeline or an evidence operation, updates or deletes an
\* event row: the row of an event_id is there in the next state, alone under
\* its event_id, with the same payload_hash, payload_json, overall_verdict
\* and created_at
C23_AppendOnly ==
    [][\A x \in events :
         \E y \in events' :
            /\ y.event_id = x.event_id
            /\ y.payload_hash = x.payload_hash
            /\ y.payload_json = x.payload_json
            /\ y.overall_verdict = x.overall_verdict
            /\ y.created_at = x.created_at
            /\ \A z \in events' : z.event_id = x.event_id => z = y]_vars

\* the row a request stored is as it was written after another request under
\* its event_id was refused as a conflict or lost the INSERT
C23_Witness ==
    \E r, q \in Requests :
        /\ Received(r) /\ loc[r].insert = Stored
        /\ RowOf(r).payload_hash = loc[r].payloadHash
        /\ ev[q].route = "events" /\ pc[q] = "done" /\ resp[q].status \in {409, 500}
        /\ Received(q) /\ Ev(q).event_id = Ev(r).event_id /\ loc[q].insert # Stored

-----------------------------------------------------------------------------
(* The tiers of the upsert *)

\* the comment ids of the mapping rows of request r's issue
MappedIds(rows, r) ==
    {x.comment_id : x \in {y \in rows : y.repo = Ev(r).repo /\ y.issue_number = Ev(r).issue_number}}

\* C27: with a mapping row, an update of the mapped comment that succeeds is
\* followed by the return of the mapped id, no comment listed or created and
\* the row's comment_id as it was; an update that fails, the 404 for a comment
\* that is gone included, changes no comment and is followed by the first
\* page of the marker scan, never by the end of the request
C27_MappingTier ==
    [][\A r \in Requests :
        /\ (pc[r] = "mapping" /\ MappedIds(statusMap, r) # {}) =>
             /\ pc'[r] = "updateMapped"
             /\ loc'[r].mapped \in MappedIds(statusMap, r)
        /\ (pc[r] = "updateMapped" /\ pc'[r] # "updateMapped") =>
             /\ calls'[r].update = calls[r].update + 1
             /\ pc'[r] \in {"touchMapping", "scan"}
             /\ loc[r].mapped \notin CommentIds(comments) => pc'[r] = "scan"
             /\ pc'[r] = "touchMapping" =>
                  /\ CommentIds(comments') = CommentIds(comments)
                  /\ comments'[CHOOSE i \in 1..Len(comments') :
                                  comments'[i].id = loc[r].mapped].body = loc[r].body
             /\ pc'[r] = "scan" =>
                  /\ comments' = comments
                  /\ loc'[r].page = 1 /\ loc'[r].found = 0
        /\ (pc[r] = "touchMapping" /\ pc'[r] # "touchMapping") =>
             /\ calls'[r].list = 0 /\ calls'[r].create = 0 /\ calls'[r].update = 1
             /\ loc'[r].commentId = loc[r].mapped
             /\ pc'[r] = "done" =>
                  resp'[r].status = 201 /\ resp'[r].rolling_comment_id = loc[r].mapped
             /\ MappedIds(statusMap', r) = MappedIds(statusMap, r)
             /\ Cardinality(statusMap') = Cardinality(statusMap)
             /\ comments' = comments]_vars

\* a request whose mapping row named a comment that is gone went on to the
\* scan and was answered 201; another returned the mapped id without a list
C27_Witness ==
    \E r \in Requests :
        /\ pc[r] = "done" /\ resp[r].status = 201
        /\ loc[r].mapped = 901 /\ calls[r].update >= 1 /\ calls[r].list >= 1
        /\ \E q \in Requests :
              /\ pc[q] = "done" /\ resp[q].status = 201
              /\ loc[q].mapped # 0 /\ resp[q].rolling_comment_id = loc[q].mapped
              /\ calls[q].list = 0 /\ calls[q].create = 0

\* C28: no update-comment call of the upsert ends the request: the step that
\* updates the mapped comment or the comment the scan found is followed by
\* the return of the upsert or by the next tier, never by a 500
C28_UpdateFailureNeverFatal ==
    [][\A r \in Requests :
        (pc[r] \in {"updateMapped", "updateFound"} /\ pc'[r] # pc[r]) =>
            /\ pc'[r] \in {"touchMapping", "putMapping", "scan", "create"}
            /\ resp'[r].status # 500]_vars

\* the places, counted from 1, of the comments that carry the marker
MarkerPlaces(cs) == {CountBefore(cs, i) + 1 : i \in MarkerItems(cs)}

\* the id of the first comment in list order that carries the marker
FirstMarkerId(cs) ==
    cs[CHOOSE i \in MarkerItems(cs) : \A j \in MarkerItems(cs) : i <= j].id

\* C29: the scan lists page 1, 2, 3 in order; it stops with a marker comment
\* at the first page that holds one, and with none after a page of fewer than
\* 100 comments or after page 3. The comment then updated is the first marker
\* comment in list order and none is created; a comment is created only when
\* the pages listed hold no marker comment
C29_ScanThenCreate ==
    [][\A r \in Requests :
        /\ (pc[r] = "scan" /\ calls'[r].list = calls[r].list + 1 /\ pc'[r] # "done") =>
             LET page == calls'[r].list
                 onPage == {m \in MarkerPlaces(comments) :
                              m > (page - 1) * 100 /\ m <= page * 100}
             IN  /\ page = loc[r].page /\ page \in 1..3
                 /\ \A m \in MarkerPlaces(comments) : m > (page - 1) * 100
                 /\ pc'[r] = "updateFound" <=> onPage # {}
                 /\ pc'[r] = "updateFound" => loc'[r].found = FirstMarkerId(comments)
                 /\ pc'[r] = "create" <=>
                       onPage = {} /\ (TotalComments(comments) < page * 100 \/ page = 3)
                 /\ pc'[r] = "scan" => loc'[r].page = page + 1
        /\ (pc[r] = "updateFound" /\ pc'[r] = "putMapping") =>
             /\ loc'[r].commentId = FirstMarkerId(comments)
             /\ comments' = [i \in 1..Len(comments) |->
                               IF comments[i].id = FirstMarkerId(comments)
                                 THEN [comments[i] EXCEPT !.body = loc[r].body]
                                 ELSE comments[i]]
             /\ calls'[r].create = 0
        /\ pc[r] = "create" =>
             /\ calls[r].list \in 1..3
             /\ \A m \in MarkerPlaces(comments) : m > calls[r].list * 100
             /\ calls[r].list < 3 => MarkerPlaces(comments) = {}
        /\ (pc[r] = "create" /\ pc'[r] = "putMapping") =>
             /\ Len(comments') = Len(comments) + 1
             /\ SubSeq(comments', 1, Len(comments)) = comments
             /\ comments'[Len(comments')].body = loc[r].body]_vars

\* on an issue with two marker comments on its second page and no usable
\* mapping row the scan listed two pages and the first of the two was updated
C29_Witness ==
    \E r \in Requests :
        /\ pc[r] = "done" /\ resp[r].status = 201
        /\ calls[r].list = 2 /\ calls[r].create = 0
        /\ MarkerCount(comments) = 2
        /\ resp[r].rolling_comment_id = 902
        /\ CommentBody(902) = loc[r].body
        /\ CommentBody(900) = MarkerComment(900).body

-----------------------------------------------------------------------------
(* The mapping row after an upsert *)

\* the body of the comment with an id in a list of comments
BodyOf(cs, id) == cs[CHOOSE i \in 1..Len(cs) : cs[i].id = id].body

\* at most one mapping row for each (repo, issue_number)
OneRowPerIssue(rows) ==
    \A x, y \in rows : (x.repo = y.repo /\ x.issue_number = y.issue_number) => x = y

\* the mapping row of request r's issue names the comment the upsert of r
\* returns, and that comment holds the body rendered in r's pipeline
RowAndBodyAreOwn(r) ==
    /\ MappedIds(statusMap', r) = {loc'[r].commentId}
    /\ BodyOf(comments', loc'[r].commentId) = loc[r].body

\* what holds after an upsert whoever runs beside it: one row for the issue,
\* the returned id that of a comment with the marker, the id reported in the
\* 201
AfterUpsert(r) ==
    /\ Cardinality(SelectMapping(statusMap', Ev(r).repo, Ev(r).issue_number)) = 1
    /\ loc'[r].commentId \in CommentIds(comments')
    /\ BodyHasMarker(BodyOf(comments', loc'[r].commentId))
    /\ BodyHasMarker(loc[r].body)
    /\ pc'[r] = "done" => resp'[r].rolling_comment_id = loc'[r].commentId

\* C30 as stated: the mapping table holds at most one row for each issue, and
\* after every successful upsert the row of the issue names the id returned
\* and the comment holds the body rendered in that pipeline, with the marker
C30_RowNamesReturnedComment ==
    [][/\ OneRowPerIssue(statusMap')
       /\ \A r \in Slots : UpsertReturns(r) => AfterUpsert(r) /\ RowAndBodyAreOwn(r)]_vars

\* C30: the mapping table holds at most one row for each issue; after every
\* successful upsert the row of the issue exists and the id returned, which
\* the 201 reports, is that of a comment with the marker; and with requests
\* handled one at a time the row names the id returned and the comment holds
\* the body rendered in that pipeline
C30_RowNamesReturnedCommentSequential ==
    [][/\ OneRowPerIssue(statusMap')
       /\ \A r \in Slots :
            UpsertReturns(r) =>
                /\ AfterUpsert(r)
                /\ cfg.sequential => RowAndBodyAreOwn(r)
       /\ \A r \in Requests :
            (ev'[r].route = "events" /\ resp'[r].status = 201) =>
                resp'[r].rolling_comment_id = loc'[r].commentId]_vars

\* with requests handled one at a time, a second event on the issue updated
\* the comment the first had created: the row names it and it holds the
\* second body
C30_Witness ==
    \E r \in Requests :
        /\ cfg.sequential
        /\ pc[r] = "done" /\ resp[r].status = 201
        /\ loc[r].mapped # 0 /\ loc[r].mapped = resp[r].rolling_comment_id
        /\ MappedIds(statusMap, r) = {resp[r].rolling_comment_id}
        /\ CommentBody(resp[r].rolling_comment_id) = loc[r].body
        /\ BodyHasMarker(loc[r].body)

-----------------------------------------------------------------------------
(* Concurrent upserts on one issue *)

\* request r created a comment in its upsert
Created(r) == r \in Requests /\ calls[r].create = 1 /\ loc[r].commentId >= 1000

\* the comment ids the mapping table holds
AllMappedIds(rows) == {<<x.repo, x.issue_number, x.comment_id>> : x \in rows}

\* the row of request r's event holds what r sent
RowIntact(r) ==
    \E x \in events :
        /\ x.event_id = Ev(r).event_id
        /\ x.payload_hash = loc[r].payloadHash
        /\ x.payload_json = loc[r].payloadJson[1]

\* C31: two concurrent upserts that both found no mapping row and no marker
\* comment each create a comment, so the issue has two marker comments; each
\* write of the mapping row leaves the id of the handler that wrote it, so
\* the row holds the id of whichever wrote last; the event rows of both
\* handlers are stored as sent
C31_BothCreate ==
    [][/\ \A r \in Requests :
            /\ (pc[r] = "create" /\ pc'[r] = "putMapping") =>
                 /\ Len(comments') = Len(comments) + 1
                 /\ BodyHasMarker(comments'[Len(comments')].body)
            /\ (pc[r] = "putMapping" /\ pc'[r] # "putMapping") =>
                 MappedIds(statusMap', r) = {loc[r].commentId}
       /\ (\A r \in Requests : pc[r] = "putMapping" => pc'[r] = "putMapping") =>
             AllMappedIds(statusMap') = AllMappedIds(statusMap)
       /\ \A r, q \in Requests :
            (r # q /\ Created(r) /\ Created(q)) =>
                /\ loc[r].mapped = 0 /\ loc[q].mapped = 0
                /\ loc[r].commentId # loc[q].commentId
                /\ {loc[r].commentId, loc[q].commentId} \subseteq CommentIds(comments)
                /\ MarkerCount(comments) >= 2
                /\ RowIntact(r) /\ RowIntact(q)
                /\ Ev(r).event_id # Ev(q).event_id]_vars

\* both handlers created a comment and were answered 201; the handler that
\* created the first comment wrote the mapping row last
C31_Witness ==
    \E r, q \in Requests :
        /\ r # q /\ Created(r) /\ Created(q)
        /\ resp[r].status = 201 /\ resp[q].status = 201
        /\ MarkerCount(comments) = 2
        /\ loc[r].commentId < loc[q].commentId
        /\ MappedIds(statusMap, r) = {loc[r].commentId}
        /\ RowIntact(r) /\ RowIntact(q)

-----------------------------------------------------------------------------
(* Convergence after duplicates *)

\* no marker comment among the comments the scan lists
NoneWithinScan(cs) == \A m \in MarkerPlaces(cs) : m > PER_PAGE * MAX_PAGES

\* C32 as stated: once an issue carries marker comments, no upsert run one at a
\* time creates a further comment and the number of marker comments never grows
C32_NeverGrowsAgain ==
    [][MarkerCount(comments) >= 1 =>
         /\ MarkerCount(comments') <= MarkerCount(comments)
         /\ \A r \in Requests : calls'[r].create = 0]_vars

\* C32: on an issue with duplicates, upserts run one at a time update the
\* mapped comment while its update succeeds, and else the first marker comment
\* in list order, which the row names from then on; a comment is created, and
\* the number of marker comments grows, only when no marker comment is among
\* the first 300 comments of the issue
C32_ConvergesWithinScan ==
    [][/\ \A r \in Requests :
            /\ (pc[r] = "create" /\ pc'[r] = "putMapping") => NoneWithinScan(comments)
            /\ (pc[r] = "updateMapped" /\ pc'[r] = "touchMapping") =>
                 /\ loc[r].mapped \in {comments[i].id : i \in MarkerItems(comments)}
                 /\ MappedIds(statusMap, r) = {loc[r].mapped}
                 /\ BodyOf(comments', loc[r].mapped) = loc[r].body
                 /\ Len(comments') = Len(comments)
            /\ (pc[r] = "updateFound" /\ pc'[r] = "putMapping") =>
                 /\ loc'[r].commentId = FirstMarkerId(comments)
                 /\ BodyOf(comments', FirstMarkerId(comments)) = loc[r].body
                 /\ Len(comments') = Len(comments)
            /\ (pc[r] = "putMapping" /\ pc'[r] # "putMapping") =>
                 MappedIds(statusMap', r) = {loc[r].commentId}
       /\ MarkerCount(comments') > MarkerCount(comments) => NoneWithinScan(comments)]_vars

\* the first upsert updated the mapped duplicate, that comment was deleted, and
\* the next upsert listed three pages, updated the duplicate left on the third
\* page and created none
C32_Witness ==
    \E r, q \in Requests :
        /\ r < q
        /\ resp[r].status = 201 /\ resp[q].status = 201
        /\ loc[r].upsertFrom[1].markers = 2 /\ loc[r].upsertFrom[1].mapping = "marker"
        /\ resp[r].rolling_comment_id = 902 /\ calls[r].list = 0
        /\ loc[q].upsertFrom[1].mapping = "deleted"
        /\ calls[q].list = 3 /\ calls[q].create = 0
        /\ resp[q].rolling_comment_id = 900
        /\ MarkerCount(comments) = 1
        /\ MappedIds(statusMap, q) = {900}
        /\ nextId = 1000

-----------------------------------------------------------------------------
(* The body written and the event log at that moment *)

\* the bodies request r would render from the event rows in the store now
RenderedNow(r) ==
    {renderRelayStatusMarkdown(loc[r].issue, Ev(r).issue_number, Ev(r),
                               loc[r].provenanceVerified, loc[r].prHeadSha,
                               IF d = <<>> THEN <<>> ELSE <<safeParseEvent(d[1].payload_json)>>,
                               IF q = <<>> THEN <<>> ELSE <<safeParseEvent(q[1].payload_json)>>,
                               recent) :
        d \in LatestByType(events, Ev(r).repo, Ev(r).issue_number, "dev.update"),
        q \in LatestByType(events, Ev(r).repo, Ev(r).issue_number, "qa.result_submitted"),
        recent \in RecentLists(events, Ev(r).repo, Ev(r).issue_number, RECENT_LIMIT)}

\* request r issues a create or an update comment call in this step
WritesComment(r) ==
    calls'[r].update + calls'[r].create > calls[r].update + calls[r].create

\* C33: the body a create or update comment call carries accounts for every
\* event row of the issue in the store at the moment the call is issued: its
\* latest dev, latest qa and recent activity are those of the rows held then
C33_BodyFromLogAtUpdate ==
    [][\A r \in Requests : WritesComment(r) => loc[r].body \in RenderedNow(r)]_vars

-----------------------------------------------------------------------------
(* Label writes of concurrent pipelines *)

\* the label transition of request r applied to a label set
Transition(r, current) ==
    NextLabels(current, cfg.rules.table[Ev(r).event_type][loc[r].ruleKey])

\* request r ran its pipeline to the 201 and replaced the labels on the way
Relabelled(r) == pc[r] = "done" /\ resp[r].status = 201 /\ calls[r].labels = 1

\* C34: after two pipelines for different events of one issue, each with a
\* matching rule, have completed, the issue's labels are those of the two
\* transitions applied one after the other in some order
C34_LabelWritesSerialize ==
    \A r, q \in Requests :
        (r # q /\ Relabelled(r) /\ Relabelled(q) /\ Ev(r).event_id # Ev(q).event_id) =>
            labels \in {Transition(q, Transition(r, Labels6)),
                        Transition(r, Transition(q, Labels6))}

-----------------------------------------------------------------------------
(* The installation token *)

\* the forge calls request r has issued with its token
ForgeCalls(r) ==
    calls[r].pr + calls[r].issue + calls[r].list + calls[r].update + calls[r].create + calls[r].labels

\* C35: a request mints the installation token at most once; every request
\* that issues a forge call has minted its own token before, whatever other
\* requests have minted; a request answered 401, 400, 200 or 409 has minted none
C35_TokenOncePerRequest ==
    \A r \in Requests :
        /\ calls[r].token <= 1
        /\ ForgeCalls(r) > 0 => calls[r].token = 1
        /\ pc[r] \in {"prFetch", "insert", "issue", "mapping", "putLabels"} => calls[r].token = 1
        /\ (pc[r] = "done" /\ resp[r].status \in {401, 400, 200, 409}) => calls[r].token = 0
        /\ ev[r].route # "events" => calls[r].token = 0

\* of two concurrent requests for one event both minted a token and fetched
\* the PR head with it; one stored the event and ran on with the same token
\* through the issue fetch, the comment and the labels
C35_Witness ==
    \E r, q \in Requests :
        /\ r # q
        /\ resp[r].status = 201 /\ calls[r].token = 1 /\ ForgeCalls(r) >= 4
        /\ resp[q].status = 500 /\ calls[q].token = 1 /\ calls[q].pr = 1
        /\ loc[q].insert = Duplicate

-----------------------------------------------------------------------------
(* No forge call is retried *)

\* the forge calls of request r stay within one try each
WithinOneTry(r) ==
    /\ calls[r].token <= 1
    /\ calls[r].pr <= 1
    /\ calls[r].issue <= 2
    /\ calls[r].list <= MAX_PAGES
    /\ calls[r].update <= 2
    /\ calls[r].create <= 1
    /\ calls[r].labels <= 1
    /\ calls[r].update = 2 => calls[r].create = 0
    /\ calls[r].issue = 2 => loc[r].ruleKey # NoRule

\* C36: a request issues at most one PR fetch, two issue fetches, three
\* comment-list pages, two comment updates, one comment create and one label
\* replace; and every request received ends with a response once the calls it
\* awaits return
C36_NoRetry ==
    /\ [](\A r \in 1..MaxRequests : WithinOneTry(r))
    /\ \A r \in 1..MaxRequests : (pc[r] # "idle") ~> (pc[r] = "done" /\ resp[r].status # 0)

\* a request went through every tier: PR fetch, issue fetch, a failed update
\* of the mapped comment, three pages listed, a create, the issue fetch for
\* the labels and the label replace
C36_Witness ==
    \E r \in Requests :
        /\ pc[r] = "done" /\ resp[r].status = 201
        /\ calls[r].pr = 1 /\ calls[r].issue = 2 /\ calls[r].list = 3
        /\ calls[r].update = 1 /\ calls[r].create = 1 /\ calls[r].labels = 1

-----------------------------------------------------------------------------
(* The marker in every body written *)

\* the comments of page `page` that the relay created
OwnOnPage(cs, page) ==
    {i \in 1..Len(cs) : /\ cs[i].id >= 1000
                        /\ CountBefore(cs, i) >= (page - 1) * PER_PAGE
                        /\ CountBefore(cs, i) < page * PER_PAGE}

\* C37: the body of every create or update comment call begins with the
\* marker, so every comment the relay created or rewrote carries it, and a
\* later scan that lists the page of a comment the relay created stops there
C37_MarkerFirst ==
    [][/\ \A r \in Requests :
            /\ WritesComment(r) => loc[r].body.first = RELAY_STATUS_MARKER
            /\ (/\ pc[r] = "scan" /\ calls'[r].list = calls[r].list + 1 /\ pc'[r] # "done"
                /\ OwnOnPage(comments, loc[r].page) # {}) =>
                    /\ pc'[r] = "updateFound"
                    /\ loc'[r].found \in CommentIds(comments)
       /\ \A i \in 1..Len(comments') :
            (i > Len(comments) \/ comments'[i] # comments[i]) =>
                comments'[i].body.first = RELAY_STATUS_MARKER]_vars

\* a request created the rolling comment; the next one, its update of the
\* mapped comment failing, listed the comments and found that comment by its
\* marker
C37_Witness ==
    \E r, q \in Requests :
        /\ r < q
        /\ calls[r].create = 1 /\ resp[r].status = 201
        /\ resp[r].rolling_comment_id >= 1000
        /\ calls[q].list >= 1 /\ calls[q].update = 2 /\ calls[q].create = 0
        /\ loc[q].found = resp[r].rolling_comment_id
        /\ resp[q].status = 201
        /\ BodyOf(comments, loc[q].found) = loc[q].body

-----------------------------------------------------------------------------
(* What the comment shows of the event log *)

\* the rows of request r's repo and issue, and those of one type among them
RowsOfIssue(r) == {x \in events : x.repo = Ev(r).repo /\ x.issue_number = Ev(r).issue_number}

RowsOfType(r, eventType) == {x \in RowsOfIssue(r) : x.event_type = eventType}

\* the rows of greatest created_at
NewestOf(rows) == {x \in rows : \A y \in rows : y.created_at <= x.created_at}

\* what the comment shows of a row's payload
ShownOf(row, k) ==
    IF Field(row.payload_json, k) \in {Absent, ""} THEN "n/a" ELSE Field(row.payload_json, k)

\* the step in which request r renders the body from what it read
Renders(r) == pc[r] = "recent" /\ pc'[r] = "mapping"

\* C38 as stated: with no concurrent handler the body shows the event just
\* inserted as the latest of its type and lists it under Recent Activity
C38_JustInsertedIsLatest ==
    [][\A r \in Requests : (cfg.sequential /\ Renders(r)) =>
          LET body == loc'[r].body
          IN  /\ Ev(r).event_type = "qa.result_submitted" =>
                    body.qaVerdict = ShownOf(RowOf(r), "overall_verdict")
              /\ Ev(r).event_type = "dev.update" =>
                    body.devSummary = ShownOf(RowOf(r), "summary")
              /\ \E i \in 1..Len(body.recent) : body.recent[i] = RecentLine(RowOf(r))]_vars

\* C38: with no concurrent handler the Latest QA Result and the Latest Dev
\* Update come from a row of that type, repo and issue of greatest created_at,
\* the event just inserted when no other such row has a created_at as great;
\* Recent Activity lists the rows of the repo and issue, at most 5, newest
\* first, the event just inserted among them when fewer than 5 other rows
\* have a created_at as great as its own, and no row of another issue or repo
C38_LatestByCreatedAt ==
    [][\A r \in Requests : (cfg.sequential /\ Renders(r)) =>
          LET body == loc'[r].body
              own == RowOf(r)
              rows == RowsOfIssue(r)
              qa == RowsOfType(r, "qa.result_submitted")
              dev == RowsOfType(r, "dev.update")
              n == Len(body.recent)
          IN  /\ own \in rows
              /\ body.qaVerdict \in
                    (IF qa = {} THEN {"n/a"} ELSE {ShownOf(x, "overall_verdict") : x \in NewestOf(qa)})
              /\ body.devSummary \in
                    (IF dev = {} THEN {"n/a"} ELSE {ShownOf(x, "summary") : x \in NewestOf(dev)})
              /\ NewestOf(qa) = {own} => body.qaVerdict = ShownOf(own, "overall_verdict")
              /\ NewestOf(dev) = {own} => body.devSummary = ShownOf(own, "summary")
              /\ n <= RECENT_LIMIT
              /\ n = IF Cardinality(rows) < RECENT_LIMIT THEN Cardinality(rows) ELSE RECENT_LIMIT
              /\ \A i, j \in 1..n : i < j => body.recent[i].created_at >= body.recent[j].created_at
              /\ \A i \in 1..n : \E x \in rows : body.recent[i] = RecentLine(x)
              /\ \A i \in 1..n : \A x \in events \ rows : body.recent[i] # RecentLine(x)
              /\ Cardinality({x \in rows \ {own} : x.created_at >= own.created_at}) < RECENT_LIMIT =>
                    \E i \in 1..n : body.recent[i] = RecentLine(own)]_vars

\* on an issue with five earlier events, beside a newer one of another issue,
\* a QA report stored with a later created_at was rendered as the Latest QA
\* Result and as the first of five lines of Recent Activity, the oldest event
\* of the issue left out
C38_Witness ==
    \E r \in Requests :
        /\ resp[r].status = 201
        /\ Cardinality(RowsOfIssue(r)) = 6
        /\ events \ RowsOfIssue(r) # {}
        /\ Ev(r).event_type = "qa.result_submitted"
        /\ loc[r].body.qaVerdict = "PASS"
        /\ loc[r].body.devSummary = "polished"
        /\ Len(loc[r].body.recent) = 5
        /\ loc[r].body.recent[1] = RecentLine(RowOf(r))
        /\ loc[r].body.recent[5].created_at = 2
        /\ BodyOf(comments, resp[r].rolling_comment_id) = loc[r].body

-----------------------------------------------------------------------------
(* The verdict the comment shows *)

\* the stored overall_verdict as the comment would show it
ShownVerdict(row) == IF row.overall_verdict \in {Absent, ""} THEN "n/a" ELSE row.overall_verdict

\* C39: the verdict under Latest QA Result of the comment a QA report's
\* pipeline wrote is the stored overall_verdict of that report, the latest QA
\* event of the issue: PASS_UNVERIFIED for a PASS that was downgraded
C39_CommentShowsStoredVerdict ==
    \A r \in Requests :
        (/\ pc[r] = "done" /\ resp[r].status = 201
         /\ Ev(r).event_type = "qa.result_submitted"
         /\ NewestOf(RowsOfType(r, "qa.result_submitted")) = {RowOf(r)}) =>
            CommentBody(resp[r].rolling_comment_id).qaVerdict = ShownVerdict(RowOf(r))

-----------------------------------------------------------------------------
(* The payload hash and the downgrade *)

\* request r re-submits the payload whose pipeline stored the row of its event_id
Resubmits(r, row) ==
    /\ row.event_id = Ev(r).event_id
    /\ \E q \in Requests : /\ q # r /\ Received(q) /\ loc[q].insert = Stored
                           /\ loc[q].payload = loc[r].payload

\* C40: the hash stored is that of the validated payload as submitted, with
\* the reported verdict; a re-submission of the payload of an event stored as
\* PASS_UNVERIFIED is answered 200 idempotent whatever the PR head is by then,
\* without a PR fetch, and no stored row ever changes
C40_HashBeforeDowngrade ==
    [][/\ \A x \in events : x \in events'
       /\ \A r \in Requests :
            /\ (pc[r] = "insert" /\ loc'[r].insert = Stored) =>
                 \E x \in events' \ events :
                    /\ x.payload_hash = sha256Hex(JsonStringify(validateEvent(Reported(r)).event[1]))
                    /\ Field(x.payload_json, "overall_verdict") = Reported(r).overall_verdict
                    /\ x.overall_verdict = loc[r].effectiveVerdict
            /\ \A x \in events :
                 (/\ pc[r] = "lookup" /\ pc'[r] # "lookup"
                  /\ x.overall_verdict = "PASS_UNVERIFIED" /\ Resubmits(r, x)) =>
                     /\ Reported(r).overall_verdict = "PASS"
                     /\ resp'[r].status = 200 /\ resp'[r].idempotent
                     /\ calls'[r] = NoCalls
                     /\ events' = events]_vars

\* a PASS was stored as PASS_UNVERIFIED while the PR head differed; the head
\* then moved to the reported commit and the same payload, sent again, was
\* answered 200, the row still saying PASS_UNVERIFIED
C40_Witness ==
    \E q, r \in Requests :
        /\ q < r
        /\ resp[q].status = 201 /\ resp[q].verdict = "PASS_UNVERIFIED"
        /\ loc[r].payload = loc[q].payload /\ Reported(r).overall_verdict = "PASS"
        /\ resp[r].status = 200
        /\ prHead = "abc1234def" /\ prHead = Ev(r).build[1].commit_sha
        /\ RowOf(r).overall_verdict = "PASS_UNVERIFIED"
        /\ calls[r].pr = 0

=============================================================================
